---- MODULE Spec2Model ----
(***************************************************************************)
(* Model of the data-encoding engine of lyxal_encoding: the specification  *)
(* compiler, the block (bit-packing) codec with padding / wrap / ignore,   *)
(* the fixed-capacity big-integer core and the arithmetic codec built on   *)
(* it.  Bytes and characters are integers 0..255, byte strings and texts   *)
(* are sequences of them.  A Rust panic (slice index out of range, split   *)
(* out of range, expect on Err) is the result kind "panic".                *)
(***************************************************************************)
EXTENDS Integers, Sequences, FiniteSets, TLC

\* ------------------------------------------------------------------------
\* Bounds of the exploration
\* ------------------------------------------------------------------------
\* longest input byte string handed to the encoder
MaxLen == 17
\* longest hand-made text handed to the decoder
MaxText == 4
\* longest data a buffer of the wrong length is tried on
MaxMismatch == 2
\* input slice addresses explored: as_ptr() as usize ranges over 0..MaxAddr
MaxAddr == 1
\* how far a caller's buffer length may be off the computed length
MaxSlack == 1

\* capacity of the big-integer scratch buffer in limbs (128 in the source,
\* explored at a small capacity)
MAX_BIGINT_BUFFER == 3

\* calls made on one BigUintView
MaxCalls == 3

\* bytes appended to one Encoder
MaxStream == 10

\* ------------------------------------------------------------------------
\* Program constants
\* ------------------------------------------------------------------------
\* Width of a limb.  The source uses u32 limbs and a u64 accumulator; the
\* model checker's integers are 32 bits wide, so the limb is explored at 16
\* bits with a 32-bit accumulator.  Every width in the big-integer code is
\* expressed through ChunkBits.
ChunkBits == 16
INVALID_INDEX == 255
INVALID == 128
IGNORE == 129
PADDING == 130

\* ------------------------------------------------------------------------
\* Generic helpers
\* ------------------------------------------------------------------------
RECURSIVE Pow(_, _)
Pow(b, n) == IF n = 0 THEN 1 ELSE b * Pow(b, n - 1)

\* bit i (0 = least significant) of x
BitAt(x, i) == (x \div Pow(2, i)) % 2

Min(a, b) == IF a < b THEN a ELSE b

\* a function on 1..n as the sequence it is
AsSeq(f) == f \o <<>>

\* the rust slice s[a..b] (0-based, b exclusive); callers check the range
Slice(s, a, b) == SubSeq(s, a + 1, b)

\* s with data copied in at 0-based offset off; callers check the range
Splice(s, off, data) ==
    SubSeq(s, 1, off) \o data \o SubSeq(s, off + Len(data) + 1, Len(s))

Fill(n, x) == AsSeq([i \in 1..n |-> x])

Reverse(s) == AsSeq([i \in 1..Len(s) |-> s[Len(s) + 1 - i]])

Range(a, b) == AsSeq([i \in 1..(b - a + 1) |-> a + i - 1])

\* Step applied to lo, lo + 1, .., hi - 1 in this order, from the state st.
\* The range is halved, and st is evaluated first, so that the evaluation
\* of a long loop stays shallow.
RECURSIVE FoldRange(_, _, _, _)
FoldRange(Step(_, _), lo, hi, st) ==
    IF st = st /\ hi <= lo THEN st
    ELSE IF hi = lo + 1 THEN Step(lo, st)
    ELSE FoldRange(Step, lo + ((hi - lo) \div 2), hi,
                   FoldRange(Step, lo, lo + ((hi - lo) \div 2), st))

\* the concatenation of the sequences ss[k..]
RECURSIVE FlattenFrom(_, _)
FlattenFrom(ss, k) == IF k > Len(ss) THEN <<>> ELSE ss[k] \o FlattenFrom(ss, k + 1)

Flatten(ss) == FlattenFrom(AsSeq(ss), 1)

div_ceil(a, b) == IF a % b = 0 THEN a \div b ELSE (a \div b) + 1

floor(a, b) == a - (a % b)

\* ------------------------------------------------------------------------
\* Bit widths (define_bit!) and the const fns enc / dec
\* ------------------------------------------------------------------------
ENC(bit) == CASE bit = 1 -> 8 [] bit = 2 -> 4 [] bit = 3 -> 8
              [] bit = 4 -> 2 [] bit = 5 -> 8 [] bit = 6 -> 4

DEC(bit) == CASE bit = 1 -> 1 [] bit = 2 -> 1 [] bit = 3 -> 3
              [] bit = 4 -> 1 [] bit = 5 -> 5 [] bit = 6 -> 3

enc(bit) == IF bit \in {1, 2, 4} THEN 8 \div bit ELSE IF bit \in {3, 5, 6} THEN 8 ELSE 0

dec(bit) == CASE bit \in {1, 2, 4} -> 1 [] bit = 3 -> 3 [] bit = 5 -> 5 [] bit = 6 -> 3
              [] OTHER -> 0

order(bit, msb, i) == IF msb THEN bit - 1 - i ELSE i

\* ------------------------------------------------------------------------
\* Specification::encoding: the specification compiler
\* ------------------------------------------------------------------------
\* the closure `set`: v is [ok, err, values]; a failed set keeps the error
set(v, i, x) ==
    IF ~v.ok THEN v
    ELSE IF i >= 128 THEN [v EXCEPT !.ok = FALSE, !.err = "NotAscii"]
    ELSE IF v.values[i] = x THEN v
    ELSE IF v.values[i] # INVALID THEN [v EXCEPT !.ok = FALSE, !.err = "Duplicate"]
    ELSE [v EXCEPT !.values[i] = x]

\* set(values, bytes[k], xs[k]) for k = from..Len(bytes), in order
SetAll(v, bytes, xs, from) ==
    LET step(j, w) == IF ~w.ok THEN w ELSE set(w, bytes[j], xs[j])
    IN  FoldRange(step, from, Len(bytes) + 1, v)

\* the translate loop: `from[i]` inherits the value `to[i]` resolves to
SetTranslate(v, from, to, i) ==
    LET step(j, w) ==
            IF ~w.ok THEN w
            ELSE IF to[j] >= 128 THEN [w EXCEPT !.ok = FALSE, !.err = "NotAscii"]
            ELSE IF w.values[to[j]] = INVALID THEN [w EXCEPT !.ok = FALSE, !.err = "Undefined"]
            ELSE set(w, from[j], w.values[to[j]])
    IN  FoldRange(step, i, Len(from) + 1, v)

SpecErr(e) == [ok |-> FALSE, err |-> e]

\* the flags byte with the arithmetic flag left out
pack_flags_block(use_arithmetic, bit, msb, ctb, mode_bits) ==
    bit + (IF msb THEN 8 ELSE 0) + (IF ctb THEN 16 ELSE 0) + (mode_bits * 32)

\* encoding[513]: 0x80 in arithmetic mode, else the bit width; 0x08 for msb,
\* 0x10 for ctb, the padding mode in bits 5 and 6
pack_flags(use_arithmetic, bit, msb, ctb, mode_bits) ==
    (IF use_arithmetic THEN 128 ELSE bit)
    + (IF msb THEN 8 ELSE 0) + (IF ctb THEN 16 ELSE 0) + (mode_bits * 32)

\* the bits of the padding mode
mode_bits(pm) ==
    CASE pm = "None" -> 0 [] pm = "Standard" -> 1 [] pm = "PadConcat" -> 2 [] pm = "PadFinal" -> 3

\* A specification s is a record
\*   symbols, msb, check_trailing_bits, padding (a char code, or -1 for None),
\*   padding_mode, ignore, wrap_width, wrap_separator, from, to, use_arithmetic
encoding(s) ==
    LET symbols == s.symbols
        n == Len(symbols)
        use_arithmetic == s.use_arithmetic \/ n \notin {2, 4, 8, 16, 32, 64}
        bit == CASE n = 2 -> 1 [] n = 4 -> 2 [] n = 8 -> 3 [] n = 16 -> 4
                 [] n = 32 -> 5 [] n = 64 -> 6 [] OTHER -> 0
        v0 == [ok |-> TRUE, err |-> "", values |-> [i \in 0..127 |-> INVALID]]
        v1 == SetAll(v0, symbols, [k \in 1..n |-> (k - 1) % 256], 1)
        ctb == s.check_trailing_bits \/ (~use_arithmetic /\ 8 % bit = 0)
        hasPad == s.padding # -1
        v2 == IF hasPad THEN set(v1, s.padding, PADDING) ELSE v1
        v3 == SetAll(v2, s.ignore, [k \in 1..Len(s.ignore) |-> IGNORE], 1)
        noWrap == Len(s.wrap_separator) = 0 \/ s.wrap_width = 0
        end == s.wrap_separator
        v4 == IF noWrap THEN v3 ELSE SetAll(v3, end, [k \in 1..Len(end) |-> IGNORE], 1)
        v5 == SetTranslate(v4, s.from, s.to, 1)
    IN  IF n = 0 THEN SpecErr("BadSize")
        ELSE IF use_arithmetic /\ \E k \in 1..n : symbols[k] >= 128 THEN SpecErr("NotAscii")
        ELSE IF bit = 0 /\ ~use_arithmetic THEN SpecErr("BadSize")
        ELSE IF ~v1.ok THEN SpecErr(v1.err)
        ELSE IF hasPad /\ ~use_arithmetic /\ 8 % bit = 0 THEN SpecErr("ExtraPadding")
        ELSE IF hasPad /\ s.padding >= 128 THEN SpecErr("NotAscii")
        ELSE IF ~v2.ok THEN SpecErr(v2.err)
        ELSE IF ~v3.ok THEN SpecErr(v3.err)
        ELSE IF ~noWrap /\ Len(end) > 15 THEN SpecErr("WrapSeparator")
        ELSE IF ~noWrap /\ s.wrap_width >= 256 THEN SpecErr("WrapLength")
        ELSE IF ~noWrap /\ dec(bit) = 0 THEN SpecErr("panic")
        ELSE IF ~noWrap /\ (s.wrap_width % dec(bit)) # 0 THEN SpecErr("WrapWidth")
        ELSE IF ~v4.ok THEN SpecErr(v4.err)
        ELSE IF Len(s.from) # Len(s.to) THEN SpecErr("FromTo")
        ELSE IF ~v5.ok THEN SpecErr(v5.err)
        ELSE [ok |-> TRUE,
              err |-> "",
              arith |-> use_arithmetic,
              symbols |-> symbols,
              values |-> v5.values,
              b512 |-> IF use_arithmetic THEN n % 256
                       ELSE IF hasPad THEN s.padding ELSE INVALID,
              b513 |-> pack_flags(use_arithmetic, bit, s.msb, ctb, mode_bits(s.padding_mode)),
              bit |-> bit,
              msb |-> s.msb,
              ctb |-> ctb,
              mode |-> CASE s.padding_mode = "None" -> 0 [] s.padding_mode = "Standard" -> 1
                         [] s.padding_mode = "PadConcat" -> 2 [] s.padding_mode = "PadFinal" -> 3,
              col |-> IF noWrap THEN 0 ELSE s.wrap_width,
              sep |-> IF noWrap THEN <<>> ELSE end]

\* ------------------------------------------------------------------------
\* Encoding: accessors of the compiled encoding (packed array of 531 bytes)
\* ------------------------------------------------------------------------
None == -1

\* data[513] & 0x80 != 0
is_arithmetic(e) == (e.b513 \div 128) % 2 = 1

get_symbols(e) == e.symbols

\* the forward table: the symbols repeated over 256 entries
sym(e, x) == e.symbols[(x % Len(e.symbols)) + 1]

\* the reverse table; callers index it with bytes below 128 only
val(e, c) == e.values[c]

pad(e) == IF is_arithmetic(e) THEN None ELSE IF e.b512 < 128 THEN e.b512 ELSE None

pad_mode(e) ==
    LET has_pad == ~is_arithmetic(e) /\ e.b512 < 128
    IN  CASE e.mode = 0 -> IF has_pad THEN "Standard" ELSE "None"
          [] e.mode = 1 -> "Standard"
          [] e.mode = 2 -> "PadConcat"
          [] e.mode = 3 -> "PadFinal"

ctb(e) == e.ctb

msb(e) == e.msb

bit(e) == IF is_arithmetic(e) THEN 0 ELSE e.bit

\* Option<(col, end)> as a record: some is FALSE for None
wrap(e) == [some |-> e.col # 0, col |-> e.col, end |-> e.sep]

has_ignore(e) ==
    \/ \E c \in 0..127 : val(e, c) = IGNORE
    \/ (wrap(e).some /\ Len(wrap(e).end) # 0)

\* block_len: (ilen, olen); the division by dec(bit) panics when it is zero
block_len(e) ==
    IF wrap(e).some
    THEN IF dec(bit(e)) = 0 THEN [panic |-> TRUE, ilen |-> 0, olen |-> 0]
         ELSE [panic |-> FALSE,
               ilen |-> (wrap(e).col \div dec(bit(e))) * enc(bit(e)),
               olen |-> wrap(e).col + Len(wrap(e).end)]
    ELSE [panic |-> FALSE, ilen |-> enc(bit(e)), olen |-> dec(bit(e))]

\* Encoding::is_canonical
is_canonical(e) ==
    /\ ctb(e)
    /\ Len(get_symbols(e)) # 0
    /\ \A i \in 0..127 :
          \/ val(e, i) = INVALID
          \/ (val(e, i) < Len(get_symbols(e)) /\ sym(e, val(e, i)) = i)

\* ------------------------------------------------------------------------
\* SSSE3 intrinsics used by the fast paths (vectors are 16-byte sequences)
\* ------------------------------------------------------------------------
RECURSIVE And8(_, _, _)
And8(x, y, i) ==
    IF i = 8 THEN 0 ELSE BitAt(x, i) * BitAt(y, i) * Pow(2, i) + And8(x, y, i + 1)

mm_and_si128(a, b) == AsSeq([i \in 1..16 |-> And8(a[i], b[i], 0)])

mm_shuffle_epi8(a, mask) ==
    AsSeq([i \in 1..16 |-> IF mask[i] >= 128 THEN 0 ELSE a[(mask[i] % 16) + 1]])

\* logical right shift of the four little-endian 32-bit lanes by c < 8 bits
mm_srli_epi32(a, c) ==
    AsSeq([i \in 1..16 |->
        (a[i] \div Pow(2, c))
        + (IF (i - 1) % 4 < 3 THEN (a[i + 1] % Pow(2, c)) * Pow(2, 8 - c) ELSE 0)])

mm_unpacklo_epi8(a, b) ==
    AsSeq([i \in 1..16 |-> IF i % 2 = 1 THEN a[(i + 1) \div 2] ELSE b[i \div 2]])

mm_unpackhi_epi8(a, b) ==
    AsSeq([i \in 1..16 |-> IF i % 2 = 1 THEN a[8 + ((i + 1) \div 2)] ELSE b[8 + (i \div 2)]])

\* vectorize::<u8, N>: split_at(as_ptr() as usize % N) panics beyond the
\* slice; start is the length of the unaligned head, mid the chunk count
vectorize(len, addr, N) ==
    LET s == addr % N
    IN  IF s > len THEN [panic |-> TRUE, start |-> 0, mid |-> 0]
        ELSE [panic |-> FALSE, start |-> s, mid |-> (len - s) \div N]

\* one 12-byte chunk through the base64 fast path; v is the 16-byte load
base64_simd_chunk(e, v) ==
    LET in1 == mm_shuffle_epi8(v, <<2, 1, 0, 5, 4, 3, 8, 7, 6, 11, 10, 9, 128, 128, 128, 128>>)
        mask == <<15, 252, 192, 15, 15, 252, 192, 15, 15, 252, 192, 15, 15, 252, 192, 15>>
        t0 == mm_and_si128(in1, mask)
        t1 == mm_and_si128(mm_srli_epi32(in1, 2), mask)
        res0 == mm_unpacklo_epi8(t0, t1)
        res == mm_shuffle_epi8(res0, <<0, 2, 4, 6, 8, 10, 12, 14, 1, 3, 5, 7, 9, 11, 13, 15>>)
    IN  AsSeq([i \in 1..16 |-> sym(e, And8(res[i], 63, 0))])

\* one 16-byte chunk through the hex fast path
hex_simd_chunk(e, v) ==
    LET low_mask == Fill(16, 15)
        low == mm_and_si128(v, low_mask)
        high == mm_and_si128(mm_srli_epi32(v, 4), low_mask)
        buffer == mm_unpacklo_epi8(high, low) \o mm_unpackhi_epi8(high, low)
    IN  AsSeq([i \in 1..32 |-> sym(e, buffer[i])])

\* The build and the memory a call runs in: env.simd says whether the
\* SSSE3 fast paths are compiled in, env.addr is the address of the input
\* slice, env.fault whether a vector load reaching past the end of the
\* input slice faults.
\* Results of the buffer writers are records [panic, out, written].
Panicked == [panic |-> TRUE, out |-> <<>>, written |-> 0]

encode_base64_simd(e, env, input, output) ==
    IF ~env.simd THEN [panic |-> FALSE, out |-> output, written |-> 0]
    ELSE
    LET v == vectorize(Len(input), env.addr, 12)
        load(c) == AsSeq([i \in 1..16 |->
                      IF v.start + 12 * c + i <= Len(input)
                      THEN input[v.start + 12 * c + i] ELSE 0])
        data == Flatten([c \in 1..v.mid |-> base64_simd_chunk(e, load(c - 1))])
        overread == v.mid > 0 /\ v.start + 12 * (v.mid - 1) + 16 > Len(input)
    IN  IF v.panic \/ Len(data) > Len(output) \/ (overread /\ env.fault) THEN Panicked
        ELSE [panic |-> FALSE, out |-> Splice(output, 0, data), written |-> 0]

encode_hex_simd(e, env, input, output) ==
    IF ~env.simd THEN [panic |-> FALSE, out |-> output, written |-> 0]
    ELSE
    LET v == vectorize(Len(input), env.addr, 16)
        load(c) == AsSeq([i \in 1..16 |-> input[v.start + 16 * c + i]])
        data == Flatten([c \in 1..v.mid |-> hex_simd_chunk(e, load(c - 1))])
    IN  IF v.panic \/ Len(data) > Len(output) THEN Panicked
        ELSE [panic |-> FALSE, out |-> Splice(output, 0, data), written |-> 0]

\* ------------------------------------------------------------------------
\* Block encoder
\* ------------------------------------------------------------------------
encode_base_len(b, len) == div_ceil(len, DEC(b)) * ENC(b)

\* the value of symbol i of a block: bits j = i*BIT .. i*BIT+BIT-1 of input
RECURSIVE block_symbol(_, _, _, _, _)
block_symbol(b, m, input, i, k) ==
    IF k = b THEN 0
    ELSE LET j == i * b + k
             byte_idx == j \div 8
             bit_idx == order(8, m, j % 8)
         IN  (IF byte_idx < Len(input) /\ BitAt(input[byte_idx + 1], bit_idx) # 0
              THEN Pow(2, order(b, m, k)) ELSE 0)
             + block_symbol(b, m, input, i, k + 1)

\* encode_block: the ENC symbols written to output[0..ENC]
encode_block(b, m, e, input) ==
    AsSeq([i \in 1..ENC(b) |-> sym(e, block_symbol(b, m, input, i - 1, 0))])

\* the scalar loop of encode_mut over the whole of `input`
encode_scalar(b, m, e, input) ==
    LET full == Len(input) \div DEC(b)
        rest == Len(input) % DEC(b)
        blocks == [k \in 1..full |->
                     encode_block(b, m, e, Slice(input, (k - 1) * DEC(b), k * DEC(b)))]
        last == IF rest = 0 THEN <<>>
                ELSE encode_block(b, m, e, Slice(input, full * DEC(b), Len(input)))
    IN  Flatten(blocks) \o last

\* encode_mut: the scalar loop over input[n..], writing data at output[off..]
\* after the fast path has left the buffer as fast.out
encode_mut_tail(fast, off, data) ==
    IF fast.panic \/ off > Len(fast.out) \/ off + Len(data) > Len(fast.out) THEN Panicked
    ELSE [panic |-> FALSE, out |-> Splice(fast.out, off, data), written |-> Len(data)]

\* encode_mut::<B, BO>(sym, input, output)
encode_mut(b, m, e, env, input, output) ==
    LET N == IF b = 6 /\ m THEN 12 ELSE IF b = 4 /\ m THEN 16 ELSE 0
        n == IF N = 0 THEN 0 ELSE floor(Len(input), N)
        off == IF N = 12 THEN (n \div 3) * 4 ELSE IF N = 16 THEN n * 2 ELSE 0
    IN  encode_mut_tail(
            IF N = 12 THEN encode_base64_simd(e, env, input, output)
            ELSE IF N = 16 THEN encode_hex_simd(e, env, input, output)
            ELSE [panic |-> FALSE, out |-> output, written |-> 0],
            off,
            encode_scalar(b, m, e, Slice(input, n, Len(input))))

encode_pad_len(b, pm, ilen) ==
    IF pm = "None" THEN div_ceil(ilen * 8, b)
    ELSE div_ceil(ilen, DEC(b)) * ENC(b)

\* encode_pad after its call of encode_mut on the full blocks returned r1:
\* the partial block and the padding
encode_pad_tail(b, m, pm, e, pd, input, output, r1) ==
    LET olen == encode_pad_len(b, pm, Len(input))
        input_full_len == (Len(input) \div DEC(b)) * DEC(b)
        out1 == Splice(output, 0, r1.out)
        remaining_input == Slice(input, input_full_len, Len(input))
        block == encode_block(b, m, e, remaining_input) \o Fill(32 - ENC(b), 0)
        len == olen - r1.written
        partial == Len(remaining_input) # 0
        bad2 == partial /\ (len > 32 \/ olen > Len(output) \/ r1.written > olen)
        out2 == IF partial THEN Splice(out1, r1.written, Slice(block, 0, len)) ELSE out1
        written == IF partial THEN r1.written + len ELSE r1.written
        data_len == div_ceil(Len(input) * 8, b)
        bad3 == pd # None /\ data_len < olen /\ olen > Len(output)
        out3 == IF pd = None THEN out2
                ELSE AsSeq([i \in 1..Len(out2) |->
                             IF i > data_len /\ i <= olen THEN pd ELSE out2[i]])
    IN  IF r1.panic \/ bad2 \/ bad3 THEN Panicked
        ELSE [panic |-> FALSE, out |-> out3, written |-> written]

\* encode_pad::<B, BO, PM>(sym, pad, input, output)
encode_pad(b, m, pm, e, env, pd, input, output) ==
    LET input_full_len == (Len(input) \div DEC(b)) * DEC(b)
        output_full_len == (Len(input) \div DEC(b)) * ENC(b)
    IN  encode_pad_tail(b, m, pm, e, pd, input, output,
            IF output_full_len > Len(output) THEN Panicked
            ELSE encode_mut(b, m, e, env, Slice(input, 0, input_full_len),
                            Slice(output, 0, output_full_len)))

\* encode_wrap_len: wrp is the wrap option, of which the length of end counts
encode_wrap_len(b, pm, wrp, ilen) ==
    LET olen == encode_pad_len(b, pm, ilen)
    IN  IF ~wrp.some THEN olen
        ELSE olen + Len(wrp.end) * div_ceil(olen, wrp.col)

\* one pass of the inner `for k in 0..B::ENC` loop and of the padding loop
\* of encode_wrap_mut: st is [panic, out, j], the bytes written so far and
\* the column; cap is output.len(), an index beyond it panics
wrap_put(st, c, col, end, cap) ==
    IF st.panic THEN st
    ELSE IF Len(st.out) >= cap THEN [st EXCEPT !.panic = TRUE]
    ELSE IF st.j + 1 = col
    THEN IF Len(st.out) + 1 + Len(end) > cap THEN [st EXCEPT !.panic = TRUE]
         ELSE [panic |-> FALSE, out |-> Append(st.out, c) \o end, j |-> 0]
    ELSE [panic |-> FALSE, out |-> Append(st.out, c), j |-> st.j + 1]

RECURSIVE wrap_put_all(_, _, _, _, _, _)
wrap_put_all(st, cs, k, col, end, cap) ==
    IF st.panic \/ k > Len(cs) THEN st
    ELSE wrap_put_all(wrap_put(st, cs[k], col, end, cap), cs, k + 1, col, end, cap)

RECURSIVE wrap_blocks(_, _, _, _, _, _, _, _, _)
wrap_blocks(st, b, m, e, input, i, col, end, cap) ==
    IF st.panic \/ i >= Len(input) THEN st
    ELSE LET n == Min(DEC(b), Len(input) - i)
             temp == encode_block(b, m, e, Slice(input, i, i + n))
         IN  wrap_blocks(wrap_put_all(st, temp, 1, col, end, cap), b, m, e, input, i + n,
                         col, end, cap)

RECURSIVE wrap_pad(_, _, _, _, _, _)
wrap_pad(st, olen, pd, col, end, cap) ==
    IF st.panic \/ Len(st.out) >= olen THEN st
    ELSE wrap_pad(wrap_put(st, pd, col, end, cap), olen, pd, col, end, cap)

\* `if let Some(pad) = pad { while written < olen { .. } }`
wrap_pad_opt(st, olen, pd, col, end, cap) ==
    IF pd = None THEN st ELSE wrap_pad(st, olen, pd, col, end, cap)

\* `if j != 0 { .. end .. }` and the returned count
wrap_end(st, end, output) ==
    LET s3 == IF st.j # 0 THEN st.out \o end ELSE st.out
    IN  IF st.panic \/ Len(s3) > Len(output) THEN Panicked
        ELSE [panic |-> FALSE, out |-> Splice(output, 0, s3), written |-> Len(s3)]

\* encode_wrap_mut::<B, BO, PM>(sym, pad, wrap, input, output)
encode_wrap_mut(b, m, pm, e, env, pd, wrp, input, output) ==
    IF ~wrp.some THEN encode_pad(b, m, pm, e, env, pd, input, output)
    ELSE wrap_end(
            wrap_pad_opt(
                wrap_blocks([panic |-> FALSE, out |-> <<>>, j |-> 0], b, m, e, input, 0,
                            wrp.col, wrp.end, Len(output)),
                encode_pad_len(b, pm, Len(input)), pd, wrp.col, wrp.end, Len(output)),
            wrp.end, output)

\* ------------------------------------------------------------------------
\* Encoding::encode_len / encode_mut / encode (block mode; the arithmetic
\* branch is encode_to_buffer below)
\* ------------------------------------------------------------------------
\* results of the public calls: kind is "ok", "err" or "panic"
EncOk(written, out) == [kind |-> "ok", err |-> "", written |-> written, out |-> out]

EncErr(k) == [kind |-> "err", err |-> k, written |-> 0, out |-> <<>>]

EncPanic == [kind |-> "panic", err |-> "", written |-> 0, out |-> <<>>]

block_encode_len(e, len) == encode_wrap_len(bit(e), pad_mode(e), wrap(e), len)

\* Ok(written), or the panic of the call
block_encode_result(r) == IF r.panic THEN EncPanic ELSE EncOk(r.written, r.out)

block_encode_mut(e, env, input, output) ==
    IF Len(output) # block_encode_len(e, Len(input)) THEN EncErr("BufferTooSmall")
    ELSE block_encode_result(
            encode_wrap_mut(bit(e), msb(e), pad_mode(e), e, env, pad(e), wrap(e),
                            input, output))

\* ------------------------------------------------------------------------
\* Block decoder
\* ------------------------------------------------------------------------
\* decode_block::<B, BO>(val, input, output): the loop over symbol i and bit
\* k; out starts zero-filled.  Result [err, out], err "" when Ok; indexing the
\* 128-entry table with a byte >= 128 panics.
decode_block_loop(b, m, e, input, i, k, out) ==
    LET \* pass t is symbol t \div (b + 1) at bit t % (b + 1); the pass at
        \* bit b is the step to the next symbol
        step(t, st) ==
            LET si == t \div (b + 1)
                sk == t % (b + 1)
                x == val(e, input[si + 1])
                j == si * b + sk
                byte_idx == j \div 8
                bit_idx == order(8, m, j % 8)
            IN  IF st.err # "" THEN st
                ELSE IF input[si + 1] >= 128 THEN [st EXCEPT !.err = "panic"]
                ELSE IF x >= 128 THEN [st EXCEPT !.err = "Symbol"]
                ELSE IF sk = b THEN st
                ELSE IF BitAt(x, order(b, m, sk)) # 0
                THEN IF byte_idx < DEC(b)
                     THEN [st EXCEPT !.out[byte_idx + 1] = @ + Pow(2, bit_idx)]
                     ELSE [st EXCEPT !.err = "Trailing"]
                ELSE st
    IN  FoldRange(step, i * (b + 1) + k, ENC(b) * (b + 1), [err |-> "", out |-> out])

decode_block(b, m, e, input) == decode_block_loop(b, m, e, input, 0, 0, Fill(DEC(b), 0))

\* the `while j > 8 * B::DEC` loop of check_trail
RECURSIVE check_trail_loop(_, _, _, _, _)
check_trail_loop(b, m, last, j, k) ==
    IF j > 8 * DEC(b)
    THEN IF k = 0 THEN "panic"
         ELSE IF BitAt(last, order(b, m, k - 1)) # 0 THEN "Trailing"
         ELSE check_trail_loop(b, m, last, j - 1, k - 1)
    ELSE ""

\* check_trail::<B, BO>(val, input): "" when Ok
check_trail(b, m, e, input) ==
    IF Len(input) = 0 \/ input[Len(input)] >= 128 THEN "panic"
    ELSE LET last == val(e, input[Len(input)])
         IN  IF last >= 128 THEN "Symbol"
             ELSE check_trail_loop(b, m, last, Len(input) * b, b)

\* skip_ignore(val, input[from..]): the number of bytes skipped
RECURSIVE skip_ignore(_, _, _)
skip_ignore(e, input, from) ==
    IF from < Len(input) /\ (input[from + 1] >= 128 \/ val(e, input[from + 1]) = IGNORE)
    THEN 1 + skip_ignore(e, input, from + 1)
    ELSE 0

\* the decoded length rounded up instead of down
decode_wrap_len_ceil(b, pm, len) ==
    [some |-> TRUE, ilen |-> len, olen |-> div_ceil(len * b, 8)]

decode_wrap_len(b, pm, len) ==
    IF b \notin 1..6 THEN [some |-> FALSE, ilen |-> 0, olen |-> 0]
    ELSE LET en == CASE b \in {1, 2, 4} -> 8 \div b [] b = 3 -> 8 [] b = 5 -> 8 [] b = 6 -> 4
             de == CASE b \in {1, 2, 4} -> 1 [] b = 3 -> 3 [] b = 5 -> 5 [] b = 6 -> 3
         IN  IF pm = "None" THEN [some |-> TRUE, ilen |-> len, olen |-> (len * b) \div 8]
             ELSE [some |-> TRUE, ilen |-> floor(len, en),
                   olen |-> (floor(len, en) \div en) * de]

\* results of the decoding calls
DecOk(written, out) ==
    [kind |-> "ok", written |-> written, out |-> out, read |-> 0, position |-> 0, err |-> ""]

DecErr(read, written, position, k) ==
    [kind |-> "err", written |-> written, out |-> <<>>, read |-> read,
     position |-> position, err |-> k]

DecPanic ==
    [kind |-> "panic", written |-> 0, out |-> <<>>, read |-> 0, position |-> 0, err |-> ""]

\* Encoding::decode_len: written holds the length on success
Encoding_decode_len(e, len) ==
    IF is_arithmetic(e) THEN DecOk(len, <<>>)
    ELSE LET l == decode_wrap_len(bit(e), pad_mode(e), len)
         IN  IF ~l.some THEN DecErr(0, 0, 0, "Overflow")
             ELSE IF ~(has_ignore(e) \/ len = l.ilen) THEN DecErr(0, 0, l.ilen, "Length")
             ELSE DecOk(l.olen, <<>>)

\* the symbol collection loop of decode_wrap_mut: c is
\* [err, pos, buffer, p_idx] with pos the index of the next input byte
RECURSIVE collect(_, _, _, _, _, _)
collect(b, e, ign, pd, input, c) ==
    IF ~(Len(c.buffer) < ENC(b) /\ c.pos < Len(input)) THEN c
    ELSE LET n == IF ign THEN skip_ignore(e, input, c.pos) ELSE 0
             pos == c.pos + n
         IN  IF pos >= Len(input) THEN [c EXCEPT !.pos = pos]
             ELSE LET byte == input[pos + 1]
                  IN  IF pd # None /\ byte = pd
                      THEN collect(b, e, ign, pd, input,
                             [c EXCEPT !.pos = pos + 1, !.buffer = Append(@, byte),
                                       !.p_idx = IF @ = None THEN Len(c.buffer) ELSE @])
                      ELSE IF c.p_idx # None THEN [c EXCEPT !.pos = pos, !.err = "Padding"]
                      ELSE IF byte >= 128 \/ val(e, byte) = INVALID
                      THEN [c EXCEPT !.pos = pos, !.err = "Symbol"]
                      ELSE collect(b, e, ign, pd, input,
                             [c EXCEPT !.pos = pos + 1, !.buffer = Append(@, byte)])

\* decode_wrap_mut: one pass of the outer `while !input.is_empty()` loop.
\* pos0 is the index of the next input byte, out the bytes written
\* (output[..written]), olen the length of the output buffer.  The result is
\* the returned value, or of kind "more" with the state of the next pass.
decode_wrap_pass(b, m, pm, ign, e, input, olen, pos0, read0, out) ==
    LET written == Len(out)
        n0 == IF ign THEN skip_ignore(e, input, pos0) ELSE 0
        start == pos0 + n0
        read == IF ign THEN read0 + n0 ELSE read0
        pd == pad(e)
        c == collect(b, e, ign, pd, input,
                     [err |-> "", pos |-> start, buffer |-> <<>>, p_idx |-> None])
        used == c.pos - start
        b_idx == Len(c.buffer)
        \* partial final block, PaddingMode::None
        bufN == c.buffer \o Fill(ENC(b) - b_idx, sym(e, 0))
        nN == (b_idx * b) \div 8
        dN == decode_block(b, m, e, bufN)
        tN == IF ctb(e) THEN check_trail(b, m, e, c.buffer) ELSE ""
        \* full block, padding replaced by a valid symbol
        p == c.p_idx
        valid == IF p > 0 THEN c.buffer[1] ELSE sym(e, 0)
        bufF == IF p = None THEN c.buffer
                ELSE AsSeq([i \in 1..ENC(b) |-> IF i > p THEN valid ELSE c.buffer[i]])
        dF == decode_block(b, m, e, bufF)
        tF == IF p # None /\ ctb(e) /\ p > 0
              THEN check_trail(b, m, e, Slice(c.buffer, 0, p)) ELSE ""
        nF == IF p # None THEN (p * b) \div 8 ELSE DEC(b)
        outF == out \o Slice(dF.out, 0, nF)
        readF == read + used
        n2 == IF ign THEN skip_ignore(e, input, c.pos) ELSE 0
        \* a DecodePartial raised inside the current block
        partial(position, kind) ==
            [DecErr(read + used, written, position, kind) EXCEPT !.out = out]
    IN  IF pos0 >= Len(input) \/ start >= Len(input) THEN DecOk(written, out)
        ELSE IF c.err # "" THEN partial(read + used, c.err)
        ELSE IF b_idx = 0 THEN DecOk(written, out)
        ELSE IF b_idx < ENC(b)
        THEN IF pm = "None"
             THEN IF dN.err = "panic" THEN DecPanic
                  ELSE IF dN.err # "" THEN partial(read + used - 1, dN.err)
                  ELSE IF tN = "panic" THEN DecPanic
                  ELSE IF tN # "" THEN partial(read + used - 1, tN)
                  ELSE IF written + nN > olen THEN DecPanic
                  ELSE DecOk(written + nN, out \o Slice(dN.out, 0, nN))
             ELSE partial(read + used, "Length")
        ELSE IF dF.err = "panic" THEN DecPanic
        ELSE IF dF.err # "" THEN partial(read + used - 1, dF.err)
        ELSE IF p # None /\ (p * b) % 8 >= b
        THEN IF read + used < ENC(b) - p THEN DecPanic
             ELSE partial(read + used - (ENC(b) - p), "Length")
        ELSE IF tF = "panic" THEN DecPanic
        ELSE IF tF # ""
        THEN IF read + used < ENC(b) - p + 1 THEN DecPanic
             ELSE partial(read + used - (ENC(b) - p + 1), tF)
        ELSE IF written + nF > olen THEN DecPanic
        ELSE IF p # None /\ pm = "PadFinal"
        THEN IF c.pos + n2 < Len(input)
             THEN [DecErr(readF + n2, Len(outF), readF + n2, "Padding") EXCEPT !.out = outF]
             ELSE DecOk(Len(outF), outF)
        ELSE [kind |-> "more", pos |-> c.pos, read |-> readF, out |-> outF]

\* after a pass that returned r: the result, or the next pass
decode_wrap_next(b, m, pm, ign, e, input, olen, r) ==
    IF r.kind # "more" THEN r
    ELSE decode_wrap_pass(b, m, pm, ign, e, input, olen, r.pos, r.read, r.out)

\* the passes from the state (pos0, read0, out) on.  A pass that does not
\* return consumes at least one byte of input, and the pass that finds the
\* input empty returns: Len(input) + 1 passes reach the returned value.
decode_wrap_loop(b, m, pm, ign, e, input, olen, pos0, read0, out) ==
    LET step(j, r) == decode_wrap_next(b, m, pm, ign, e, input, olen, r)
    IN  FoldRange(step, 0, Len(input) + 1,
                  [kind |-> "more", pos |-> pos0, read |-> read0, out |-> out])

decode_wrap_mut(b, m, pm, ign, e, input, olen) ==
    decode_wrap_loop(b, m, pm, ign, e, input, olen, 0, 0, <<>>)

\* Encoding::decode_mut, block branch; olen is output.len().  out is
\* output[..written].
block_decode_mut(e, input, olen) ==
    LET len == Encoding_decode_len(e, Len(input))
    IN  IF len.kind = "err" THEN DecErr(0, 0, len.position, len.err)
        ELSE IF olen # len.written THEN DecErr(0, 0, Len(input), "BufferTooSmall")
        ELSE decode_wrap_mut(bit(e), msb(e), pad_mode(e), has_ignore(e), e, input, olen)

\* ------------------------------------------------------------------------
\* BigUintView: big-endian limbs `chunks` and the index `start` of the first
\* non-zero limb (0-based; chunks[i] of the source is chunks[i + 1] here)
\* ------------------------------------------------------------------------
ChunkMod == Pow(2, ChunkBits)

ChunkBytes == ChunkBits \div 8

\* the `while start < len && chunks[start] == 0` loop
RECURSIVE skip_zero_chunks(_, _)
skip_zero_chunks(chunks, start) ==
    IF start < Len(chunks) /\ chunks[start + 1] = 0
    THEN skip_zero_chunks(chunks, start + 1)
    ELSE start

BigUintView_new(n) == [chunks |-> Fill(n, 0), start |-> n]

is_zero(big) == big.start >= Len(big.chunks)

\* The accumulator is two limbs wide.  Its value is computed half a limb at
\* a time, which is exact at every limb value.
\* carry = (carry << w) | chunk; chunk = (carry / divider) as limb;
\* carry %= divider.  `shifted` tells that the shift dropped set bits.
div_step(carry, chunk, divider) ==
    LET half == Pow(2, ChunkBits \div 2)
        hi == (carry % ChunkMod) * half + (chunk \div half)
        lo == (hi % divider) * half + (chunk % half)
    IN  [chunk |-> ((hi \div divider) * half + (lo \div divider)) % ChunkMod,
         carry |-> lo % divider,
         shifted |-> carry >= ChunkMod]

\* carry += chunk * multiplicator; chunk = carry as limb; carry >>= w.
\* `wrapped` tells that the sum left the accumulator.
mul_step(carry, chunk, multiplicator) ==
    LET half == Pow(2, ChunkBits \div 2)
        lo == (chunk % half) * multiplicator + carry
        hi == (chunk \div half) * multiplicator + (lo \div half)
    IN  [chunk |-> (hi % half) * half + (lo % half),
         carry |-> (hi \div half) % ChunkMod,
         wrapped |-> hi \div half >= ChunkMod]

\* div_mod: the limb loop from i, carrying the accumulator
RECURSIVE div_mod_loop(_, _, _, _)
div_mod_loop(chunks, i, carry, divider) ==
    IF i >= Len(chunks) THEN [chunks |-> chunks, carry |-> carry]
    ELSE LET s == div_step(carry, chunks[i + 1], divider)
         IN  div_mod_loop([chunks EXCEPT ![i + 1] = s.chunk], i + 1, s.carry, divider)

\* div_mod that leaves the value as it is
div_mod_kept(big, divider) ==
    [big |-> [chunks |-> big.chunks, start |-> skip_zero_chunks(big.chunks, big.start)],
     rem |-> 0]

\* div_mod with `start` left where it was
div_mod_unskipped(big, divider) ==
    LET r == div_mod_loop(big.chunks, big.start, 0, divider)
    IN  [big |-> [chunks |-> r.chunks, start |-> big.start], rem |-> r.carry % ChunkMod]

\* div_mod(divider): [big, rem]
div_mod(big, divider) ==
    LET r == div_mod_loop(big.chunks, big.start, 0, divider)
    IN  [big |-> [chunks |-> r.chunks, start |-> skip_zero_chunks(r.chunks, big.start)],
         rem |-> r.carry % ChunkMod]

\* mul_add: the limb loop from i down to start
RECURSIVE mul_add_loop(_, _, _, _, _)
mul_add_loop(chunks, start, i, carry, multiplicator) ==
    IF i < start THEN [chunks |-> chunks, carry |-> carry]
    ELSE LET s == mul_step(carry, chunks[i + 1], multiplicator)
         IN  mul_add_loop([chunks EXCEPT ![i + 1] = s.chunk], start, i - 1,
                          s.carry, multiplicator)

\* the carry out of the first limb dropped instead of reported
mul_add_wrapping(big, multiplicator, addition) ==
    LET r == mul_add_loop(big.chunks, big.start, Len(big.chunks) - 1, addition, multiplicator)
        start == IF r.carry > 0 /\ big.start > 0 THEN big.start - 1 ELSE big.start
    IN  [ok |-> TRUE,
         big |-> [chunks |-> IF start < big.start
                             THEN [r.chunks EXCEPT ![big.start] = r.carry % ChunkMod]
                             ELSE r.chunks,
                  start |-> start]]

\* mul_add with the carry stored and `start` left where it was
mul_add_unlowered(big, multiplicator, addition) ==
    LET r == mul_add_loop(big.chunks, big.start, Len(big.chunks) - 1, addition, multiplicator)
    IN  IF r.carry > 0 /\ big.start = 0
        THEN [ok |-> FALSE, big |-> [chunks |-> r.chunks, start |-> big.start]]
        ELSE [ok |-> TRUE,
              big |-> [chunks |-> IF r.carry > 0
                                  THEN [r.chunks EXCEPT ![big.start] = r.carry % ChunkMod]
                                  ELSE r.chunks,
                       start |-> big.start]]

\* mul_add(multiplicator, addition): [ok, big]
mul_add(big, multiplicator, addition) ==
    LET r == mul_add_loop(big.chunks, big.start, Len(big.chunks) - 1, addition, multiplicator)
    IN  IF r.carry > 0
        THEN IF big.start > 0
             THEN [ok |-> TRUE,
                   big |-> [chunks |-> [r.chunks EXCEPT ![big.start] = r.carry % ChunkMod],
                            start |-> big.start - 1]]
             ELSE [ok |-> FALSE, big |-> [chunks |-> r.chunks, start |-> big.start]]
        ELSE [ok |-> TRUE, big |-> [chunks |-> r.chunks, start |-> big.start]]

\* the limb with 0-based index i as load_be_bytes packs it: the bytes are
\* taken from the end of `bytes`, ChunkBytes per limb
RECURSIVE load_chunk(_, _, _)
load_chunk(bytes, byte_idx, shift) ==
    IF shift < ChunkBits /\ byte_idx > 0
    THEN bytes[byte_idx] * Pow(2, shift) + load_chunk(bytes, byte_idx - 1, shift + 8)
    ELSE 0

\* load_be_bytes(bytes): [ok, big]
load_be_bytes(big, bytes) ==
    LET n == Len(big.chunks)
        byte_len == Len(bytes)
        needed_chunks == div_ceil(byte_len, ChunkBytes)
        start == n - needed_chunks
        chunks == AsSeq([i \in 1..n |->
                     IF i <= start THEN 0
                     ELSE LET used == (n - i) * ChunkBytes
                          IN  load_chunk(bytes, IF byte_len > used THEN byte_len - used ELSE 0,
                                         0)])
    IN  IF byte_len = 0 THEN [ok |-> TRUE, big |-> [chunks |-> big.chunks, start |-> n]]
        ELSE IF needed_chunks > n THEN [ok |-> FALSE, big |-> big]
        ELSE [ok |-> TRUE, big |-> [chunks |-> chunks, start |-> skip_zero_chunks(chunks, start)]]

\* to_be_bytes of one limb
chunk_be_bytes(chunk) ==
    AsSeq([k \in 1..ChunkBytes |-> (chunk \div Pow(256, ChunkBytes - k)) % 256])

\* leading_zeros() / 8 of one limb
RECURSIVE leading_zero_bytes(_, _)
leading_zero_bytes(bs, k) ==
    IF k <= Len(bs) /\ bs[k] = 0 THEN 1 + leading_zero_bytes(bs, k + 1) ELSE 0

\* copy_into_bytes_be(out): [ok, bytes], bytes being out[..written]
copy_into_bytes_be(big, out_len) ==
    LET n == Len(big.chunks)
        first_chunk == big.chunks[big.start + 1]
        skip_in_first == leading_zero_bytes(chunk_be_bytes(first_chunk), 1)
        total0 == (n - big.start) * ChunkBytes
        total_bytes == IF total0 > skip_in_first THEN total0 - skip_in_first ELSE 0
        bytes == Flatten([i \in 1..(n - big.start) |->
                    LET bs == chunk_be_bytes(big.chunks[big.start + i])
                    IN  IF i = 1 THEN Slice(bs, skip_in_first, ChunkBytes) ELSE bs])
    IN  IF is_zero(big) THEN [ok |-> TRUE, bytes |-> <<>>]
        ELSE IF skip_in_first >= ChunkBytes /\ first_chunk # 0 THEN [ok |-> FALSE, bytes |-> <<>>]
        ELSE IF out_len < total_bytes THEN [ok |-> FALSE, bytes |-> <<>>]
        ELSE [ok |-> TRUE, bytes |-> bytes]

\* BigUint, the heap-backed integer, is its vector of limbs;
\* BigUint::with_capacity gives <<0>>.
\* no limb inserted in front of a vector whose first limb is in use
BigUint_mul_add_fixed(chunks, multiplicator, addition) ==
    LET r == mul_add([chunks |-> chunks, start |-> Min(skip_zero_chunks(chunks, 0),
                                                        Len(chunks) - 1)],
                     multiplicator, addition)
    IN  [ok |-> TRUE, chunks |-> r.big.chunks]

\* BigUint::mul_add(multiplicator, addition): [ok, chunks], ok false when
\* the expect on the view's mul_add panics
BigUint_mul_add(chunks, multiplicator, addition) ==
    LET start == skip_zero_chunks(chunks, 0)
        some == IF chunks = <<>> THEN <<0>> ELSE chunks
        used_start == IF start < Len(chunks) THEN start ELSE Len(some) - 1
        r == IF start = 0 /\ chunks # <<>>
             THEN mul_add([chunks |-> <<0>> \o chunks, start |-> 1], multiplicator, addition)
             ELSE mul_add([chunks |-> some, start |-> used_start], multiplicator, addition)
    IN  [ok |-> r.ok, chunks |-> r.big.chunks]

\* BigUint::into_bytes_be
into_bytes_be(chunks) ==
    LET cp == copy_into_bytes_be([chunks |-> chunks, start |-> skip_zero_chunks(chunks, 0)],
                                 Len(chunks) * ChunkBytes)
    IN  IF cp.ok THEN cp.bytes ELSE <<>>

\* ------------------------------------------------------------------------
\* Arithmetic codec
\* ------------------------------------------------------------------------
\* 32 - base.leading_zeros(): the number of bits of base
RECURSIVE bit_length(_)
bit_length(x) == IF x = 0 THEN 0 ELSE 1 + bit_length(x \div 2)

\* the digits taken from the last chunk: at least one, until it is zero
RECURSIVE last_digits(_, _, _, _)
last_digits(alphabet, base, big_rem, room) ==
    IF room = 0 THEN [ok |-> FALSE, digits |-> <<>>]
    ELSE LET d == alphabet[(big_rem % base) + 1]
             result == big_rem \div base
         IN  IF result = 0 THEN [ok |-> TRUE, digits |-> <<d>>]
             ELSE LET r == last_digits(alphabet, base, result, room - 1)
                  IN  [ok |-> r.ok, digits |-> <<d>> \o r.digits]

\* the `for _ in 0..big_pow` loop: exactly big_pow digits of a chunk
RECURSIVE chunk_digits(_, _, _, _, _)
chunk_digits(alphabet, base, big_rem, count, room) ==
    IF count = 0 THEN [ok |-> TRUE, digits |-> <<>>]
    ELSE IF room = 0 THEN [ok |-> FALSE, digits |-> <<>>]
    ELSE LET r == chunk_digits(alphabet, base, big_rem \div base, count - 1, room - 1)
         IN  [ok |-> r.ok, digits |-> <<alphabet[(big_rem % base) + 1]>> \o r.digits]

\* the 'fast loop: the digits, least significant first; room is the number
\* of output bytes still free
RECURSIVE fast_loop(_, _, _, _, _, _)
fast_loop(alphabet, base, big_pow, big_base, big, room) ==
    LET dm == div_mod(big, big_base)
    IN  IF is_zero(dm.big) THEN last_digits(alphabet, base, dm.rem, room)
        ELSE LET r == chunk_digits(alphabet, base, dm.rem, big_pow, room)
             IN  IF ~r.ok THEN r
                 ELSE LET t == fast_loop(alphabet, base, big_pow, big_base, dm.big,
                                         room - big_pow)
                      IN  [ok |-> t.ok, digits |-> r.digits \o t.digits]

\* no leaders at all
count_leaders_none(input, i) == 0

\* leaders counted over the whole input, the last byte included
count_leaders_whole(input, i) ==
    Cardinality({k \in 1..Len(input) : \A j \in 1..k : input[j] = 0})

\* the leaders: zero bytes at the head of input, the last byte left aside
RECURSIVE count_leaders(_, _)
count_leaders(input, i) ==
    IF i < Len(input) - 1 /\ input[i + 1] = 0 THEN 1 + count_leaders(input, i + 1) ELSE 0

\* encode_to_buffer(alphabet, input, output)
encode_to_buffer(alphabet, input, output) ==
    LET base == Len(alphabet)
        ld == load_be_bytes(BigUintView_new(MAX_BIGINT_BUFFER), input)
        big_pow == ChunkBits \div bit_length(base)
        big_base == Pow(base, big_pow)
        f == fast_loop(alphabet, base, big_pow, big_base, ld.big, Len(output))
        leaders == count_leaders(input, 0)
        data == f.digits \o Fill(leaders, alphabet[1])
    IN  IF Len(input) = 0 THEN EncOk(0, output)
        ELSE IF ~ld.ok THEN EncErr("Overflow")
        ELSE IF ~f.ok \/ Len(data) > Len(output) THEN EncErr("BufferTooSmall")
        ELSE EncOk(Len(data), Splice(output, 0, Reverse(data)))

\* the reverse lookup table of decode_to_buffer, a later symbol overriding
lookup(alphabet, byte) ==
    LET is == {i \in 1..Len(alphabet) : alphabet[i] = byte}
    IN  IF is = {} THEN INVALID_INDEX
        ELSE (CHOOSE i \in is : \A k \in is : k <= i) - 1

\* the fold over the input characters: [err, big], err "" when all digits
\* were multiplied in, else "Symbol" or "Overflow" with pos the failing index
decode_fold(alphabet, input, i, big) ==
    LET step(j, st) ==
            IF st.err # "" THEN st
            ELSE LET index == lookup(alphabet, input[j + 1])
                     r == mul_add(st.big, Len(alphabet), index)
                 IN  IF index = INVALID_INDEX THEN [st EXCEPT !.err = "Symbol", !.pos = j]
                     ELSE IF ~r.ok THEN [st EXCEPT !.err = "Overflow", !.pos = j]
                     ELSE [st EXCEPT !.big = r.big]
    IN  FoldRange(step, i, Len(input), [err |-> "", pos |-> 0, big |-> big])

\* the first index of `byte` in input
first_index(input, byte) == CHOOSE i \in 0..(Len(input) - 1) :
    input[i + 1] = byte /\ \A k \in 0..(i - 1) : input[k + 1] # byte

take_while_eq(input, c, i) ==
    LET step(j, st) ==
            IF st.more /\ input[j + 1] = c THEN [st EXCEPT !.count = st.count + 1]
            ELSE [st EXCEPT !.more = FALSE]
    IN  FoldRange(step, i, Len(input), [count |-> 0, more |-> TRUE]).count

\* decode_to_buffer(alphabet, input, output); olen is output.len()
decode_to_buffer(alphabet, input, olen) ==
    LET f == decode_fold(alphabet, input, 0, BigUintView_new(MAX_BIGINT_BUFFER))
        cp == copy_into_bytes_be(f.big, olen)
        written == Len(cp.bytes)
        leaders == take_while_eq(input, alphabet[1], 0)
    IN  IF Len(input) = 0 THEN DecOk(0, <<>>)
        ELSE IF f.err = "Symbol"
        THEN DecErr(0, 0, first_index(input, input[f.pos + 1]), "Symbol")
        ELSE IF f.err = "Overflow" THEN DecErr(0, 0, 0, "Overflow")
        ELSE IF ~cp.ok THEN DecErr(0, 0, 0, "BufferTooSmall")
        ELSE IF leaders > 0 /\ olen < written + leaders THEN DecErr(0, 0, 0, "BufferTooSmall")
        ELSE DecOk(written + leaders, Fill(leaders, 0) \o cp.bytes)

\* core::str::from_utf8: the length of the longest valid prefix
valid_up_to(s, i) ==
    LET n == Len(s)
        cont(j, k, lo, hi) == j + k < n /\ s[j + k + 1] >= lo /\ s[j + k + 1] <= hi
        \* the length of the sequence that starts at s[j], 0 when it is invalid
        width(j) ==
            LET c0 == s[j + 1]
            IN  IF c0 < 128 THEN 1
                ELSE IF c0 >= 194 /\ c0 <= 223
                THEN IF cont(j, 1, 128, 191) THEN 2 ELSE 0
                ELSE IF c0 >= 224 /\ c0 <= 239
                THEN IF cont(j, 1, IF c0 = 224 THEN 160 ELSE 128,
                             IF c0 = 237 THEN 159 ELSE 191)
                        /\ cont(j, 2, 128, 191)
                     THEN 3 ELSE 0
                ELSE IF c0 >= 240 /\ c0 <= 244
                THEN IF cont(j, 1, IF c0 = 240 THEN 144 ELSE 128,
                             IF c0 = 244 THEN 143 ELSE 191)
                        /\ cont(j, 2, 128, 191) /\ cont(j, 3, 128, 191)
                     THEN 4 ELSE 0
                ELSE 0
        step(j, st) ==
            IF st.stop \/ j # st.pos THEN st
            ELSE IF width(j) = 0 THEN [st EXCEPT !.stop = TRUE]
            ELSE [st EXCEPT !.pos = j + width(j)]
    IN  FoldRange(step, i, n, [pos |-> i, stop |-> FALSE]).pos

\* alloc_impl::encode(alphabet, input): out is the returned String.  The
\* vector grows as needed: one byte per input bit and one more is room the
\* digits never fill.
alloc_encode(alphabet, input) ==
    LET base == Len(alphabet)
        ld == load_be_bytes(BigUintView_new(MAX_BIGINT_BUFFER), input)
        big_pow == ChunkBits \div bit_length(base)
        f == fast_loop(alphabet, base, big_pow, Pow(base, big_pow), ld.big,
                       (8 * Len(input)) + 1)
        out == Reverse(f.digits \o Fill(count_leaders(input, 0), alphabet[1]))
    IN  IF Len(input) = 0 THEN EncOk(0, <<>>)
        ELSE IF ~ld.ok THEN EncErr("Overflow")
        ELSE IF valid_up_to(out, 0) < Len(out) THEN EncPanic
        ELSE EncOk(Len(out), out)

\* the `for (position, byte) in input.bytes().enumerate()` loop of
\* alloc_impl::decode
alloc_decode_fold(alphabet, input, i, chunks) ==
    LET step(j, st) ==
            IF st.err # "" THEN st
            ELSE LET index == lookup(alphabet, input[j + 1])
                     r == BigUint_mul_add(st.chunks, Len(alphabet), index)
                 IN  IF index = INVALID_INDEX THEN [st EXCEPT !.err = "Symbol", !.pos = j]
                     ELSE IF ~r.ok THEN [st EXCEPT !.err = "panic", !.pos = j]
                     ELSE [st EXCEPT !.chunks = r.chunks]
    IN  FoldRange(step, i, Len(input), [err |-> "", pos |-> 0, chunks |-> chunks])

\* alloc_impl::decode(alphabet, input): out is the returned vector
alloc_decode(alphabet, input) ==
    LET f == alloc_decode_fold(alphabet, input, 0, <<0>>)
        bytes == into_bytes_be(f.chunks)
        leaders == take_while_eq(input, alphabet[1], 0)
    IN  IF Len(input) = 0 THEN DecOk(0, <<>>)
        ELSE IF f.err = "Symbol" THEN DecErr(0, 0, f.pos, "Symbol")
        ELSE IF f.err = "panic" THEN DecPanic
        ELSE DecOk(leaders + Len(bytes), Fill(leaders, 0) \o bytes)

\* ------------------------------------------------------------------------
\* Encoding: the public calls, dispatching on the arithmetic flag
\* ------------------------------------------------------------------------
Encoding_encode_len(e, len) ==
    IF is_arithmetic(e) THEN len + (len \div 2) + 2
    ELSE block_encode_len(e, len)

\* Encoding::encode_mut(input, output): out is the whole buffer afterwards
Encoding_encode_mut(e, env, input, output) ==
    IF is_arithmetic(e) THEN encode_to_buffer(get_symbols(e), input, output)
    ELSE block_encode_mut(e, env, input, output)

\* expect("encoding failed") and output.truncate(written)
encode_truncate(r) ==
    IF r.kind # "ok" THEN EncPanic
    ELSE EncOk(r.written, Slice(r.out, 0, Min(r.written, Len(r.out))))

\* Encoding::encode(input): out is the returned text
Encoding_encode(e, env, input) ==
    encode_truncate(
        Encoding_encode_mut(e, env, input, Fill(Encoding_encode_len(e, Len(input)), 0)))

\* Encoding::encode_append(input, output): [panic, output]
encode_append(e, env, input, output) ==
    LET r == Encoding_encode(e, env, input)
    IN  IF r.kind = "ok" THEN [panic |-> FALSE, output |-> output \o r.out]
        ELSE [panic |-> TRUE, output |-> output]

\* map_err of the arithmetic branch: the DecodePartial of a DecodeError
decode_partial(r) ==
    IF r.kind = "err" THEN DecErr(r.position, 0, r.position, r.err) ELSE r

\* Encoding::decode_mut(input, output); olen is output.len(), out is
\* output[..written]
Encoding_decode_mut(e, input, olen) ==
    IF is_arithmetic(e)
    THEN LET u == valid_up_to(input, 0)
         IN  IF u < Len(input) THEN DecErr(u, 0, u, "Symbol")
             ELSE decode_partial(decode_to_buffer(get_symbols(e), input, olen))
    ELSE block_decode_mut(e, input, olen)

\* map_err(|partial| partial.error)
decode_error(r) == IF r.kind = "err" THEN DecErr(0, 0, r.position, r.err) ELSE r

\* Encoding::decode(input): out is the returned vector; an error keeps the
\* DecodeError of the partial result only
Encoding_decode(e, input) ==
    LET len == Encoding_decode_len(e, Len(input))
    IN  IF len.kind = "err" THEN DecErr(0, 0, len.position, len.err)
        ELSE decode_error(Encoding_decode_mut(e, input, len.written))

\* ------------------------------------------------------------------------
\* The explored specifications, inputs and environments
\* ------------------------------------------------------------------------
\* RFC 4648 alphabets for 16, 32 and 64 symbols, digits for the small ones
Alphabet(b) ==
    CASE b = 6 -> Range(65, 90) \o Range(97, 122) \o Range(48, 57) \o <<43, 47>>
      [] b = 5 -> Range(65, 90) \o Range(50, 55)
      [] b = 4 -> Range(48, 57) \o Range(97, 102)
      [] OTHER -> Range(48, 47 + Pow(2, b))

\* the Bitcoin alphabet of 58 symbols
Base58Alphabet ==
    Range(49, 57) \o Range(65, 72) \o Range(74, 78) \o Range(80, 90)
    \o Range(97, 107) \o Range(109, 122)

\* characters outside every explored alphabet: '=' as padding, ' ' as an
\* ignored character, '!' with no meaning, a byte that is not ASCII, and the
\* byte a caller's output buffer holds before a call
Chars == [pad |-> 61, ignore |-> 32, bad |-> 33, high |-> 200, stale |-> 170]

WrapSeparator == <<10>>

\* the explored wrap width for bit width b: a line of DEC whole blocks
WrapWidth(b) == ENC(b) * DEC(b)

PaddingModes == {"None", "Standard", "PadConcat", "PadFinal"}

MkSpec(symbols, m, c, p, pm, ig, w, sep, arith) ==
    [symbols |-> symbols, msb |-> m, check_trailing_bits |-> c, padding |-> p,
     padding_mode |-> pm, ignore |-> ig, wrap_width |-> w, wrap_separator |-> sep,
     from |-> <<>>, to |-> <<>>, use_arithmetic |-> arith]

\* the padding a specification of bit width b would sensibly carry
NaturalPad(b) == IF 8 % b = 0 THEN None ELSE Chars.pad

BlockSpecs ==
    \* most significant bit first: every bit width, padding and padding
    \* mode, without and with wrap
    {MkSpec(Alphabet(b), TRUE, TRUE, p, pm, <<>>, IF w THEN WrapWidth(b) ELSE 0,
            WrapSeparator, FALSE) :
        b \in 1..6, p \in {None, Chars.pad}, pm \in PaddingModes, w \in BOOLEAN}
    \* least significant bit first
    \cup {MkSpec(Alphabet(b), FALSE, TRUE, NaturalPad(b), pm, <<>>, 0, <<>>, FALSE) :
        b \in 1..6, pm \in {"None", "Standard"}}
    \* trailing bits not checked
    \cup {MkSpec(Alphabet(b), TRUE, FALSE, NaturalPad(b), pm, <<>>, 0, <<>>, FALSE) :
        b \in {3, 5, 6}, pm \in {"None", "Standard"}}
    \* an ignored character
    \cup {MkSpec(Alphabet(b), TRUE, TRUE, NaturalPad(b), pm, <<Chars.ignore>>, 0, <<>>, FALSE) :
        b \in {4, 6}, pm \in {"None", "Standard"}}

\* arithmetic mode: by symbol count, and forced on a power of two
ArithSpecs ==
    {MkSpec(a, TRUE, TRUE, None, "None", <<>>, 0, <<>>, FALSE) :
        a \in {Range(48, 50), Range(48, 57), Base58Alphabet}}
    \cup {MkSpec(Alphabet(1), TRUE, TRUE, None, "None", <<>>, 0, <<>>, TRUE)}

Specs == BlockSpecs \cup ArithSpecs

\* the specifications hand-made texts are decoded under: no padding
\* character in every padding mode, padded base64, and base64 without the
\* trailing bits check
TextSpecs ==
    {MkSpec(Alphabet(b), TRUE, TRUE, None, pm, <<>>, 0, <<>>, FALSE) :
        b \in 3..6, pm \in PaddingModes}
    \cup {MkSpec(Alphabet(6), TRUE, c, p, "Standard", <<>>, 0, <<>>, FALSE) :
        c \in BOOLEAN, p \in {None, Chars.pad}}

\* the specifications decode_mut is called under on hand-made texts: those
\* of TextSpecs, an ignored character, a wrap, padding allowed in the last
\* block only, and arithmetic mode
DecodeSpecs ==
    TextSpecs
    \cup {MkSpec(Alphabet(b), TRUE, TRUE, Chars.pad, "PadFinal", ig, 0, <<>>, FALSE) :
        b \in {4, 6}, ig \in {<<>>, <<Chars.ignore>>}}
    \cup {MkSpec(Alphabet(b), TRUE, TRUE, NaturalPad(b), pm, <<Chars.ignore>>, 0, <<>>, FALSE) :
        b \in {4, 6}, pm \in {"None", "Standard"}}
    \cup {MkSpec(Alphabet(6), TRUE, TRUE, Chars.pad, "Standard", <<>>, WrapWidth(6),
                 WrapSeparator, FALSE)}
    \cup ArithSpecs

\* the specifications handed to the compiler alone: valid and invalid
\* symbols, padding, ignore, wrap and translate, in both modes
CompileSymbols ==
    {<<>>, Alphabet(1), Alphabet(3), Alphabet(6), Range(48, 50), Base58Alphabet,
     <<48, 48>>, <<48, 200>>, <<48, 49, 200>>}

CompileWraps ==
    {[w |-> 0, sep |-> <<>>], [w |-> 8, sep |-> <<10>>], [w |-> 24, sep |-> <<10>>],
     [w |-> 7, sep |-> <<10>>], [w |-> 256, sep |-> <<10>>], [w |-> 8, sep |-> Fill(16, 10)],
     [w |-> 76, sep |-> <<13, 10>>]}

CompileTranslates ==
    {[from |-> <<>>, to |-> <<>>], [from |-> <<97>>, to |-> <<48>>],
     [from |-> <<97>>, to |-> <<>>], [from |-> <<97>>, to |-> <<33>>]}

CompileSpecs ==
    {[MkSpec(a, TRUE, TRUE, p, pm, ig, wr.w, wr.sep, ar)
        EXCEPT !.from = tr.from, !.to = tr.to] :
        a \in CompileSymbols, ar \in BOOLEAN, p \in {None, Chars.pad, 200, 48},
        pm \in {"None", "Standard"}, ig \in {<<>>, <<Chars.ignore>>},
        wr \in CompileWraps, tr \in CompileTranslates}

\* four families of input bytes: mixed bytes, two zero bytes then mixed
\* bytes, zero bytes only, 0xff bytes only
PatternByte(p, i) ==
    CASE p = 1 -> (73 * i + 29) % 256
      [] p = 2 -> IF i <= 2 THEN 0 ELSE (151 * i + 102) % 256
      [] p = 3 -> 0
      [] p = 4 -> 255

Bytes(p, n) == AsSeq([i \in 1..n |-> PatternByte(p, i)])

\* the block codec sees every length up to MaxLen
BlockInputs == {Bytes(1, n) : n \in 0..MaxLen}

\* the arithmetic codec sees every family, up to one byte more than the
\* big-integer buffer holds
ArithInputs == {Bytes(p, n) : p \in 1..4, n \in 0..((ChunkBytes * MAX_BIGINT_BUFFER) + 1)}

InputsFor(e) == IF is_arithmetic(e) THEN ArithInputs ELSE BlockInputs

\* hand-made texts: the first two symbols, the padding character and a
\* character without meaning, in every order
Texts(e) ==
    LET cs == {sym(e, 0), sym(e, 1), Chars.pad, Chars.bad}
    IN  UNION {[1..n -> cs] : n \in 0..MaxText}

\* a block of p symbols of value zero and padding up to ENC symbols
PaddedBlock(e, p) == Fill(p, sym(e, 0)) \o Fill(ENC(bit(e)) - p, pad(e))

\* hand-made texts for decode_mut: the characters of Texts, a byte that is
\* not ASCII and the characters the encoding ignores, in every order; in
\* arithmetic mode also runs of the last symbol long enough to exceed the
\* big-integer buffer, alone and after a leader; in PadFinal mode also
\* every such text after a padded block
MutTexts(e) ==
    LET cs == {sym(e, 0), sym(e, 1), Chars.pad, Chars.bad, Chars.high}
              \cup {c \in {Chars.ignore, WrapSeparator[1]} : val(e, c) = IGNORE}
        base == Len(get_symbols(e))
        digits == ((8 * ChunkBytes * MAX_BIGINT_BUFFER) \div (bit_length(base) - 1)) + 2
        short == UNION {[1..n -> cs] : n \in 0..MaxText}
    IN  short
        \cup (IF is_arithmetic(e)
              THEN {l \o Fill(n, get_symbols(e)[base]) :
                        l \in {<<>>, <<sym(e, 0)>>}, n \in 0..digits}
              ELSE {})
        \cup (IF ~is_arithmetic(e) /\ pad(e) # None /\ pad_mode(e) = "PadFinal"
              THEN {PaddedBlock(e, p) \o t : p \in 0..(ENC(bit(e)) - 1), t \in short}
              ELSE {})

\* the environments a call is explored in; the build and the address only
\* matter to encode_mut::<B4 | B6, MSB>, reached when there is no wrap
ScalarEnv == [simd |-> FALSE, addr |-> 0, fault |-> FALSE]

Envs == {ScalarEnv} \cup [simd : {TRUE}, addr : 0..MaxAddr, fault : BOOLEAN]

EnvsFor(e) ==
    IF ~is_arithmetic(e) /\ bit(e) \in {4, 6} /\ msb(e) /\ ~wrap(e).some THEN Envs
    ELSE {ScalarEnv}

\* how far off the computed length a buffer is tried: any slack on short
\* data, the exact length on all data
Slack(n) == IF n <= MaxMismatch THEN (0 - MaxSlack)..MaxSlack ELSE {0}

\* ------------------------------------------------------------------------
\* State
\* ------------------------------------------------------------------------
VARIABLES
    pc,     \* "new", "rejected", "ready", "encoded", "decoded"
    spec,   \* the Specification
    e,      \* the result of Specification::encoding
    env,    \* the environment of the encoding call
    input,  \* the bytes handed to the encoder
    eres,   \* the result of the encoding call
    text,   \* the text handed to the decoder
    dres,   \* the result of the decoding call
    big,    \* a BigUintView over a buffer of MAX_BIGINT_BUFFER limbs
    call,   \* the last call on the view, and the view it was made on
    encoder \* an Encoder, with the bytes appended to it so far

vars == <<pc, spec, e, env, input, eres, text, dres, big, call, encoder>>

NoEnc == [kind |-> "none", err |-> "", written |-> 0, out |-> <<>>, op |-> "", olen |-> 0]

NoDec == [kind |-> "none", written |-> 0, out |-> <<>>, read |-> 0, position |-> 0,
          err |-> "", op |-> "", olen |-> 0]

WithOp(r, op, olen) == [x \in DOMAIN r \cup {"op", "olen"} |->
                          IF x = "op" THEN op ELSE IF x = "olen" THEN olen ELSE r[x]]

\* a Specification has been filled in, nothing has been called yet
Start(S) ==
    /\ pc = "new"
    /\ spec \in S
    /\ e = SpecErr("")
    /\ env = ScalarEnv
    /\ input = <<>>
    /\ eres = NoEnc
    /\ text = <<>>
    /\ dres = NoDec
    /\ big = BigUintView_new(MAX_BIGINT_BUFFER)
    /\ call = [op |-> "new", n |-> 0, before |-> big, arg |-> 0, add |-> 0,
               ok |-> TRUE, rem |-> 0, clean |-> TRUE]
    /\ encoder = [status |-> "open", output |-> <<>>, buffer |-> Fill(8, 0), length |-> 0,
                  fed |-> <<>>]

Init == Start(Specs)

InitArith == Start(ArithSpecs)

InitText == Start(TextSpecs)

InitCompile == Start(CompileSpecs)

InitDecodeMut == Start(DecodeSpecs)

\* Specification::encoding()
Compile ==
    /\ pc = "new"
    /\ LET r == encoding(spec)
       IN  /\ e' = r
           /\ pc' = IF r.ok THEN "ready" ELSE "rejected"
    /\ UNCHANGED <<encoder, big, call, spec, env, input, eres, text, dres>>

\* Encoding::encode(input)
Encode ==
    /\ pc = "ready"
    /\ \E inp \in InputsFor(e), en \in EnvsFor(e) :
        /\ input' = inp
        /\ env' = en
        /\ eres' = WithOp(Encoding_encode(e, en, inp), "encode",
                          Encoding_encode_len(e, Len(inp)))
    /\ pc' = "encoded"
    /\ UNCHANGED <<encoder, big, call, spec, e, text, dres>>

\* Encoding::encode_mut(input, output) on a buffer of olen stale bytes
EncodeMut ==
    /\ pc = "ready"
    /\ \E inp \in InputsFor(e), en \in EnvsFor(e) :
        \E d \in Slack(Len(inp)) :
            LET olen == Encoding_encode_len(e, Len(inp)) + d
            IN  /\ olen >= 0
                /\ input' = inp
                /\ env' = en
                /\ eres' = WithOp(Encoding_encode_mut(e, en, inp, Fill(olen, Chars.stale)),
                                  "encode_mut", olen)
    /\ pc' = "encoded"
    /\ UNCHANGED <<encoder, big, call, spec, e, text, dres>>

\* arithmetic::encode_to_buffer(alphabet, input, output) on a buffer of the
\* length encode_len gives, or of one byte per input bit and one more
EncodeToBuffer ==
    /\ pc = "ready"
    /\ is_arithmetic(e)
    /\ \E inp \in ArithInputs :
        \E olen \in {Encoding_encode_len(e, Len(inp)), (8 * Len(inp)) + 1} :
            /\ input' = inp
            /\ eres' = WithOp(encode_to_buffer(get_symbols(e), inp, Fill(olen, Chars.stale)),
                              "encode_to_buffer", olen)
    /\ pc' = "encoded"
    /\ UNCHANGED <<encoder, big, call, spec, e, env, text, dres>>

\* the text an encoding call reported
Reported(r) == Slice(r.out, 0, Min(r.written, Len(r.out)))

\* Encoding::decode on the text the encoder reported
Decode ==
    /\ pc = "encoded"
    /\ eres.kind = "ok"
    /\ LET t == Reported(eres)
       IN  /\ text' = t
           /\ dres' = WithOp(Encoding_decode(e, t), "decode", 0)
    /\ pc' = "decoded"
    /\ UNCHANGED <<encoder, big, call, spec, e, env, input, eres>>

\* Encoding::decode_mut on the text the encoder reported, the output buffer
\* sized by decode_len (no call when decode_len fails)
DecodeMut ==
    /\ pc = "encoded"
    /\ eres.kind = "ok"
    /\ LET t == Reported(eres)
           len == Encoding_decode_len(e, Len(t))
       IN  /\ len.kind = "ok"
           /\ \E d \in Slack(Len(t)) :
                /\ len.written + d >= 0
                /\ text' = t
                /\ dres' = WithOp(Encoding_decode_mut(e, t, len.written + d), "decode_mut",
                                  len.written + d)
    /\ pc' = "decoded"
    /\ UNCHANGED <<encoder, big, call, spec, e, env, input, eres>>

\* arithmetic::decode_to_buffer(alphabet, text, output) on the text the
\* encoder reported, the output buffer as long as the original input or longer
DecodeToBuffer ==
    /\ pc = "encoded"
    /\ eres.kind = "ok"
    /\ \E d \in 0..MaxSlack :
        LET t == Reported(eres)
        IN  /\ text' = t
            /\ dres' = WithOp(decode_to_buffer(get_symbols(e), t, Len(input) + d),
                              "decode_to_buffer", Len(input) + d)
    /\ pc' = "decoded"
    /\ UNCHANGED <<encoder, big, call, spec, e, env, input, eres>>

\* Encoding::decode on a hand-made text
DecodeText ==
    /\ pc = "ready"
    /\ \E t \in Texts(e) :
        /\ text' = t
        /\ dres' = WithOp(Encoding_decode(e, t), "decode", 0)
    /\ pc' = "decoded"
    /\ UNCHANGED <<encoder, big, call, spec, e, env, input, eres>>

\* Encoding::decode_mut on a hand-made text, the output buffer sized by
\* decode_len (by nothing when decode_len fails) or off by a few bytes
DecodeMutText ==
    /\ pc = "ready"
    /\ \E t \in MutTexts(e) :
        \E d \in Slack(Len(t)) :
            LET len == Encoding_decode_len(e, Len(t))
                olen == (IF len.kind = "ok" THEN len.written ELSE 0) + d
            IN  /\ olen >= 0
                /\ text' = t
                /\ dres' = WithOp(Encoding_decode_mut(e, t, olen), "decode_mut", olen)
    /\ pc' = "decoded"
    /\ UNCHANGED <<encoder, big, call, spec, e, env, input, eres>>

\* alloc_impl::encode(alphabet, input)
AllocEncode ==
    /\ pc = "ready"
    /\ is_arithmetic(e)
    /\ \E inp \in ArithInputs :
        /\ input' = inp
        /\ eres' = WithOp(alloc_encode(get_symbols(e), inp), "alloc_encode", 0)
    /\ pc' = "encoded"
    /\ UNCHANGED <<encoder, big, call, spec, e, env, text, dres>>

\* alloc_impl::decode(alphabet, input: &str) on the text the allocating
\* encoder returned, or on a hand-made text that is valid UTF-8
AllocDecode ==
    /\ \/ pc = "encoded" /\ eres.kind = "ok"
       \/ pc = "ready" /\ is_arithmetic(e)
    /\ \E t \in (IF pc = "encoded" THEN {Reported(eres)}
                 ELSE {u \in MutTexts(e) : valid_up_to(u, 0) = Len(u)}) :
        /\ text' = t
        /\ dres' = WithOp(alloc_decode(get_symbols(e), t), "alloc_decode", 0)
    /\ pc' = "decoded"
    /\ UNCHANGED <<encoder, big, call, spec, e, env, input, eres>>

\* the allocating calls: encode, then decode of what it returned
\* ------------------------------------------------------------------------
\* Calls on a BigUintView
\* ------------------------------------------------------------------------
\* `clean` records that every mul_add so far returned Ok with a multiplier
\* of at least one.
\* BigUintView::load_be_bytes(bytes)
ViewLoad ==
    /\ call.n < MaxCalls
    /\ \E p \in {2, 4} : \E n \in {0, 1, ChunkBytes + 1} \cup
                                   {(ChunkBytes * MAX_BIGINT_BUFFER) + d : d \in 0..1} :
           LET r == load_be_bytes(big, Bytes(p, n))
           IN  /\ big' = r.big
               /\ call' = [op |-> "load_be_bytes", n |-> call.n + 1, before |-> big,
                           arg |-> n, add |-> p, ok |-> r.ok, rem |-> 0,
                           clean |-> call.clean]
    /\ UNCHANGED <<pc, spec, e, env, input, eres, text, dres, encoder>>

\* BigUintView::div_mod(divider)
ViewDivMod ==
    /\ call.n < MaxCalls
    /\ \E divider \in {1, 3, 58, ChunkMod - 1} :
           LET r == div_mod(big, divider)
           IN  /\ big' = r.big
               /\ call' = [op |-> "div_mod", n |-> call.n + 1, before |-> big,
                           arg |-> divider, add |-> 0, ok |-> TRUE, rem |-> r.rem,
                           clean |-> call.clean]
    /\ UNCHANGED <<pc, spec, e, env, input, eres, text, dres, encoder>>

\* BigUintView::mul_add(multiplicator, addition)
ViewMulAdd ==
    /\ call.n < MaxCalls
    /\ \E multiplicator \in {0, 1, 58, ChunkMod - 1} : \E addition \in {0, 57, ChunkMod - 1} :
           LET r == mul_add(big, multiplicator, addition)
           IN  /\ big' = r.big
               /\ call' = [op |-> "mul_add", n |-> call.n + 1, before |-> big,
                           arg |-> multiplicator, add |-> addition, ok |-> r.ok, rem |-> 0,
                           clean |-> call.clean /\ (r.ok /\ multiplicator >= 1)]
    /\ UNCHANGED <<pc, spec, e, env, input, eres, text, dres, encoder>>

\* ------------------------------------------------------------------------
\* Encoder: fragmented input
\* ------------------------------------------------------------------------
\* Encoder::append(input) with the next k bytes of the stream; a slice out
\* of the 8-byte buffer, a remainder by zero and a failed expect are the
\* panic.  Each local of the function is bound once, in the order of the code.
EncoderAppend ==
    /\ pc = "ready" /\ encoder.status = "open"
    /\ \E k \in 0..(MaxStream - Len(encoder.fed)) :
       \E fed \in {Bytes(1, Len(encoder.fed) + k)} :
       \E ilen \in {block_len(e).ilen} :
       \E n \in {IF encoder.length > 0 /\ ilen >= encoder.length
                 THEN Min(ilen - encoder.length, k) ELSE 0} :
       \E length \in {encoder.length + n} :
       \E buffer \in {IF encoder.length > 0 /\ length <= 8
                      THEN Splice(encoder.buffer, encoder.length,
                                  SubSeq(fed, Len(fed) - k + 1, Len(fed) - k + n))
                      ELSE encoder.buffer} :
       \E flush \in {encoder.length > 0 /\ length = ilen} :
       \E head \in {IF flush /\ ilen <= 8
                    THEN encode_append(e, env, SubSeq(buffer, 1, ilen), encoder.output)
                    ELSE [panic |-> FALSE, output |-> encoder.output]} :
       \E whole \in {IF ilen = 0 THEN 0 ELSE floor(k - n, ilen)} :
       \E body \in {encode_append(e, env,
                                  SubSeq(fed, Len(fed) - k + n + 1, Len(fed) - k + n + whole),
                                  head.output)} :
       \E tail \in {SubSeq(fed, Len(fed) - k + n + whole + 1, Len(fed))} :
           encoder' =
               IF \/ block_len(e).panic
                  \/ encoder.length > 0 /\ (ilen < encoder.length \/ length > 8)
                  \/ flush /\ ilen > 8
                  \/ head.panic
                  \/ ilen = 0
                  \/ body.panic
                  \/ Len(tail) > 8
               THEN [encoder EXCEPT !.status = "panic", !.fed = fed]
               ELSE [status |-> "open",
                     output |-> body.output,
                     buffer |-> IF Len(tail) > 0 THEN Splice(buffer, 0, tail) ELSE buffer,
                     length |-> IF Len(tail) > 0 THEN Len(tail)
                                ELSE IF flush THEN 0 ELSE length,
                     fed |-> fed]
    /\ UNCHANGED <<pc, spec, e, env, input, eres, text, dres, big, call>>

\* Encoder::finalize()
EncoderFinalize ==
    /\ pc = "ready" /\ encoder.status = "open"
    /\ \E r \in {IF encoder.length > 0
                  THEN encode_append(e, env, SubSeq(encoder.buffer, 1, encoder.length),
                                     encoder.output)
                  ELSE [panic |-> FALSE, output |-> encoder.output]} :
           encoder' = IF r.panic THEN [encoder EXCEPT !.status = "panic"]
                      ELSE [encoder EXCEPT !.status = "final", !.output = r.output,
                                           !.length = 0]
    /\ UNCHANGED <<pc, spec, e, env, input, eres, text, dres, big, call>>

\* ------------------------------------------------------------------------
\* The digit loop of the arithmetic encoder, one step at a time
\* ------------------------------------------------------------------------
\* `call` holds the locals of the loop: op is the place in the code ("fast":
\* the head of the 'fast loop, "last": the inner loop of a value that became
\* zero, "chunk": the inner for loop, "done": after break 'fast), arg is
\* big_base, rem is big_rem, add is the number of iterations the for loop
\* still makes, before is the value the last div_mod was applied to.

\* arithmetic encode up to the loop: the empty input and the input that
\* does not fit return before it
EncodeEnter ==
    /\ pc = "ready" /\ call.op = "new"
    /\ \E inp \in ArithInputs :
        \E ld \in {load_be_bytes(big, inp)} :
           /\ input' = inp
           /\ big' = ld.big
           /\ call' = [call EXCEPT
                          !.op = IF Len(inp) = 0 \/ ~ld.ok THEN "returned" ELSE "fast",
                          !.ok = ld.ok,
                          !.arg = Pow(Len(get_symbols(e)),
                                      ChunkBits \div bit_length(Len(get_symbols(e))))]
    /\ UNCHANGED <<pc, spec, e, env, eres, text, dres, encoder>>

\* one step of the loop: the div_mod at its head, or one digit of either
\* inner loop
FastLoop ==
    /\ pc = "ready"
    /\ \/ /\ call.op = "fast"
          /\ \E dm \in {div_mod(big, call.arg)} :
                /\ big' = dm.big
                /\ call' = [call EXCEPT
                               !.op = IF is_zero(dm.big) THEN "last" ELSE "chunk",
                               !.before = big,
                               !.rem = dm.rem,
                               !.add = ChunkBits \div bit_length(Len(get_symbols(e)))]
          /\ text' = text
       \/ /\ call.op = "last"
          /\ text' = text \o <<get_symbols(e)[(call.rem % Len(get_symbols(e))) + 1]>>
          /\ call' = [call EXCEPT
                         !.rem = call.rem \div Len(get_symbols(e)),
                         !.op = IF call.rem \div Len(get_symbols(e)) = 0
                                THEN "done" ELSE "last"]
          /\ big' = big
       \/ /\ call.op = "chunk"
          /\ IF call.add = 0
             THEN /\ call' = [call EXCEPT !.op = "fast"]
                  /\ text' = text
             ELSE /\ text' = text \o <<get_symbols(e)[(call.rem % Len(get_symbols(e))) + 1]>>
                  /\ call' = [call EXCEPT !.rem = call.rem \div Len(get_symbols(e)),
                                          !.add = call.add - 1]
          /\ big' = big
    /\ UNCHANGED <<pc, spec, e, env, input, eres, dres, encoder>>

Next == Compile \/ Encode \/ Decode

Spec == Init /\ [][Next]_vars

\* the buffer calls: encode_mut, then decode_mut of what it reported
NextMut == Compile \/ EncodeMut \/ DecodeMut

SpecMut == Init /\ [][NextMut]_vars

\* the arithmetic codec called directly
NextArith == Compile \/ EncodeToBuffer \/ DecodeToBuffer

SpecArith == InitArith /\ [][NextArith]_vars

\* decoding of texts no encoder produced
NextText == Compile \/ DecodeText

SpecText == InitText /\ [][NextText]_vars

\* decode_mut on texts no encoder produced
NextDecodeMut == Compile \/ DecodeMutText

SpecDecodeMut == InitDecodeMut /\ [][NextDecodeMut]_vars

\* the arithmetic codec behind encode_mut and decode_mut, up to and past
\* the capacity of the big-integer buffer
NextCapacity == Compile \/ EncodeMut \/ DecodeMutText

SpecCapacity == InitArith /\ [][NextCapacity]_vars

\* the allocating arithmetic codec
NextAlloc == Compile \/ AllocEncode \/ AllocDecode

SpecAlloc == InitArith /\ [][NextAlloc]_vars

\* the compiler alone
NextCompile == Compile

SpecCompile == InitCompile /\ [][NextCompile]_vars

\* a view that is built, loaded, divided and multiplied
NextView == ViewLoad \/ ViewDivMod \/ ViewMulAdd

SpecView == InitArith /\ [][NextView]_vars

\* an Encoder fed in fragments, then finalized
NextEncoder == Compile \/ EncoderAppend \/ EncoderFinalize

SpecEncoder == Init /\ [][NextEncoder]_vars

\* the digit loop of the arithmetic encoder.  The loop runs in the calling
\* thread and nothing in it blocks or waits, so a step that can be taken is
\* taken.
SpecFast == InitArith /\ [][Compile \/ EncodeEnter \/ FastLoop]_vars /\ WF_vars(FastLoop)

\* ------------------------------------------------------------------------
\* Properties
\* ------------------------------------------------------------------------
BlockMode == pc \in {"ready", "encoded", "decoded"} /\ ~is_arithmetic(e)

\* C1: block-mode round trip.  Encoding::encode returns (it does not panic)
\* and Encoding::decode of the returned text is Ok(input), for every block
\* encoding and every input.
C1_BlockRoundTrip ==
    (BlockMode /\ pc \in {"encoded", "decoded"} /\ eres.op = "encode") =>
        /\ eres.kind = "ok"
        /\ (pc = "decoded" => (dres.kind = "ok" /\ dres.out = input))

\* the bytes the big-integer buffer holds
Capacity == ChunkBytes * MAX_BIGINT_BUFFER

\* C2: arithmetic round trip.  For an input the big-integer buffer holds,
\* encode_to_buffer succeeds on a buffer of one byte per input bit and one
\* more, and decode_to_buffer of the text it produced, on a buffer as long
\* as the input or longer, returns exactly the input.
C2_ArithRoundTrip ==
    /\ (pc = "encoded" /\ Len(input) <= Capacity /\ eres.olen = (8 * Len(input)) + 1) =>
            eres.kind = "ok"
    /\ (pc = "decoded" /\ Len(input) <= Capacity) =>
            (dres.kind = "ok" /\ dres.written = Len(input) /\ dres.out = input)

\* a round trip of an input with leading zero bytes over 58 symbols
C2_Witness ==
    /\ pc = "decoded"
    /\ dres.op = "decode_to_buffer"
    /\ Len(get_symbols(e)) = 58
    /\ Len(input) = Capacity
    /\ input[1] = 0
    /\ input[Len(input)] # 0
    /\ dres.out = input

\* C3: length exactness.  Whenever Encoding::encode_mut succeeds, the count
\* it returns is encode_len(input.len()).
C3_LengthExact ==
    (pc = "encoded" /\ eres.op = "encode_mut" /\ eres.kind = "ok") =>
        eres.written = Encoding_encode_len(e, Len(input))

\* C4: panic freedom with correctly sized buffers.  In block mode, encode_mut
\* on a buffer of encode_len(input.len()) bytes and decode_mut on a buffer of
\* decode_len(input.len()) bytes do not panic.
C4_NoPanic ==
    /\ (BlockMode /\ pc = "encoded" /\ eres.op = "encode_mut"
          /\ eres.olen = Encoding_encode_len(e, Len(input))) => eres.kind # "panic"
    /\ (BlockMode /\ pc = "decoded" /\ dres.op = "decode_mut"
          /\ Encoding_decode_len(e, Len(text)).kind = "ok"
          /\ dres.olen = Encoding_decode_len(e, Len(text)).written) => dres.kind # "panic"

\* C5: exact-length buffer contract.  encode_mut on a buffer whose length
\* differs from encode_len(input.len()) returns Err(BufferTooSmall), and
\* decode_mut on a buffer whose length differs from decode_len(input.len())
\* returns an error of kind BufferTooSmall, in block and in arithmetic mode.
C5_ExactBuffer ==
    /\ (pc = "encoded" /\ eres.op = "encode_mut"
          /\ eres.olen # Encoding_encode_len(e, Len(input))) =>
            (eres.kind = "err" /\ eres.err = "BufferTooSmall")
    /\ (pc = "decoded" /\ dres.op = "decode_mut"
          /\ Encoding_decode_len(e, Len(text)).kind = "ok"
          /\ dres.olen # Encoding_decode_len(e, Len(text)).written) =>
            (dres.kind = "err" /\ dres.err = "BufferTooSmall")

\* the data symbols of the per-block scalar encoder on the whole input
DataSymbols(en, inp) ==
    Slice(encode_scalar(bit(en), msb(en), en, inp), 0, div_ceil(8 * Len(inp), bit(en)))

\* the data symbols followed by the padding character up to the next
\* multiple of ENC symbols
PaddedText(en, inp) ==
    LET data == DataSymbols(en, inp)
    IN  data \o Fill(encode_base_len(bit(en), Len(inp)) - Len(data), pad(en))

\* the text the per-block scalar encoder gives on the whole input: cut to
\* the length of the padding mode, padded when there is a padding character
ScalarText(en, inp) ==
    IF pad(en) # None THEN PaddedText(en, inp)
    ELSE Slice(encode_scalar(bit(en), msb(en), en, inp), 0,
               encode_pad_len(bit(en), pad_mode(en), Len(inp)))

\* C6: SIMD/scalar equivalence.  For most-significant-bit-first encodings of
\* bit width 4 and 6 without wrap, encode gives the same text and the same
\* length in every build and at every address of the input, and that text
\* is the one of the per-block scalar encoder on the whole input.
C6_SimdScalar ==
    (BlockMode /\ pc = "encoded" /\ eres.op = "encode" /\ bit(e) \in {4, 6} /\ msb(e)
        /\ ~wrap(e).some) =>
        /\ eres.kind = "ok"
        /\ eres.written = Len(ScalarText(e, input))
        /\ eres.out = ScalarText(e, input)

\* every character of s is a symbol of the encoding
AllSymbols(en, s) == \A k \in 1..Len(s) : val(en, s[k]) < Len(get_symbols(en))

\* C7: canonicality.  Under a block-mode encoding for which is_canonical()
\* is true, every text decode accepts is the text encode gives for the
\* decoded bytes.
C7_Canonical ==
    (pc = "decoded" /\ dres.op = "decode" /\ ~is_arithmetic(e) /\ is_canonical(e)
        /\ dres.kind = "ok") =>
        /\ Encoding_encode(e, ScalarEnv, dres.out).kind = "ok"
        /\ Encoding_encode(e, ScalarEnv, dres.out).out = text

\* the number of bits of the symbols of s beyond the last complete byte
TrailingCount(en, s) == (Len(s) * bit(en)) % 8

\* the value of those bits in the final symbol of s
TrailingBits(en, s) ==
    LET v == val(en, s[Len(s)])
        t == TrailingCount(en, s)
    IN  IF msb(en) THEN v % Pow(2, t) ELSE v \div Pow(2, bit(en) - t)

\* C8: trailing-bit rejection.  With the trailing bits checked and a bit
\* width of 3, 5 or 6, decoding an unpadded text of symbols whose final
\* symbol carries a non-zero bit beyond the last complete byte fails with
\* kind Trailing at the index of the final symbol.
C8_TrailingRejected ==
    (pc = "decoded" /\ dres.op = "decode" /\ ~is_arithmetic(e) /\ ctb(e)
        /\ bit(e) \in {3, 5, 6} /\ pad(e) = None /\ pad_mode(e) = "None"
        /\ Len(text) > 0 /\ AllSymbols(e, text)
        /\ TrailingCount(e, text) > 0 /\ TrailingCount(e, text) < bit(e)
        /\ TrailingBits(e, text) # 0) =>
        /\ dres.kind = "err"
        /\ dres.err = "Trailing"
        /\ dres.position = Len(text) - 1

\* C9: odd-length hex.  Under a 16-symbol block-mode encoding without
\* padding character, in every padding mode, decoding a text of an odd
\* number of symbols fails with kind Length.
C9_OddHexRejected ==
    (pc = "decoded" /\ dres.op = "decode" /\ ~is_arithmetic(e) /\ bit(e) = 4
        /\ pad(e) = None /\ AllSymbols(e, text) /\ Len(text) % 2 = 1) =>
        /\ dres.kind = "err"
        /\ dres.err = "Length"

\* the text without the characters of the wrap separator
Unwrapped(en, s) == SelectSeq(s, LAMBDA c : \A k \in 1..Len(wrap(en).end) : wrap(en).end[k] # c)

\* C10: padded encode shape.  Under a block-mode encoding with a padding
\* character, the text encode returns, wrap separators left aside, is the
\* ceil(8n/B) data symbols of the input followed by the padding character
\* up to the next multiple of ENC symbols.
C10_PaddedShape ==
    (BlockMode /\ pc = "encoded" /\ eres.op = "encode" /\ pad(e) # None) =>
        /\ eres.kind = "ok"
        /\ Unwrapped(e, eres.out) = PaddedText(e, input)

\* the number of zero bytes at the head of s
LeadingZeroBytes(s) == Cardinality({k \in 1..Len(s) : \A j \in 1..k : s[j] = 0})

\* C11: leading-zero preservation.  In arithmetic mode the text
\* encode_to_buffer reports for an input with exactly k leading zero bytes
\* starts with exactly k copies of alphabet[0]: it has at least k characters,
\* the first k are alphabet[0], and the one after them, if any, is not.
C11_LeadingZeros ==
    (pc = "encoded" /\ eres.op = "encode_to_buffer" /\ eres.kind = "ok") =>
        LET t == Reported(eres)
            k == LeadingZeroBytes(input)
        IN  /\ Len(t) >= k
            /\ \A i \in 1..k : t[i] = get_symbols(e)[1]
            /\ (Len(t) > k => t[k + 1] # get_symbols(e)[1])

\* an encoded input of two zero bytes and other bytes after them
C11_Witness ==
    /\ pc = "encoded"
    /\ eres.op = "encode_to_buffer"
    /\ eres.kind = "ok"
    /\ LeadingZeroBytes(input) = 2
    /\ Len(input) > 3
    /\ Len(Reported(eres)) > 3

\* the kinds of SpecificationError
SpecificationErrors ==
    {"BadSize", "NotAscii", "Duplicate", "ExtraPadding", "WrapLength", "WrapSeparator",
     "WrapWidth", "FromTo", "Undefined"}

\* C12: Specification::encoding() is total.  It returns Ok(Encoding) or one
\* of the kinds of SpecificationError for every specification; it does not
\* panic.
C12_EncodingTotal ==
    (pc \in {"ready", "rejected"}) => (e.ok \/ e.err \in SpecificationErrors)

\* the sizes of the block-mode alphabets
BlockSizes == {2, 4, 8, 16, 32, 64}

\* C13: mode selection.  An accepted specification compiles to block mode
\* exactly when use_arithmetic is false and the number of symbols is 2, 4,
\* 8, 16, 32 or 64, with the bit width of that size, and to arithmetic mode
\* otherwise.
C13_ModeSelection ==
    (pc = "ready") =>
        /\ ~is_arithmetic(e) <=>
              (~spec.use_arithmetic /\ Len(spec.symbols) \in BlockSizes)
        /\ ~is_arithmetic(e) => Pow(2, bit(e)) = Len(spec.symbols)
        /\ Len(spec.symbols) = 58 => is_arithmetic(e)
        /\ (Len(spec.symbols) = 64 /\ ~spec.use_arithmetic) =>
              (~is_arithmetic(e) /\ bit(e) = 6)

\* 58 symbols compiled without the arithmetic flag of the specification
C13_Witness ==
    /\ pc = "ready"
    /\ Len(spec.symbols) = 58
    /\ ~spec.use_arithmetic
    /\ is_arithmetic(e)

\* the characters an encoding writes: its symbols, its padding character
\* and the bytes of its wrap separator
OwnCharacters(en) ==
    {get_symbols(en)[k] : k \in 1..Len(get_symbols(en))}
    \cup (IF pad(en) # None THEN {pad(en)} ELSE {})
    \cup (IF is_arithmetic(en) THEN {} ELSE {wrap(en).end[k] : k \in 1..Len(wrap(en).end)})

\* C14: encoded text is made of the encoding's own characters.  Every byte
\* encode_mut reports as written is a symbol of the alphabet, the padding
\* character or a byte of the wrap separator, and the buffer holds as many
\* bytes as reported.
C14_OwnCharacters ==
    (pc = "encoded" /\ eres.op = "encode_mut" /\ eres.kind = "ok") =>
        /\ eres.written <= Len(eres.out)
        /\ \A k \in 1..Len(Reported(eres)) : Reported(eres)[k] \in OwnCharacters(e)

\* decode_mut accepted the text
Accepted == pc = "decoded" /\ dres.op = "decode_mut" /\ dres.kind = "ok"

\* C15: decode_len is an upper bound that is exact without ignore/wrap.  For
\* every input decode_mut accepts the decoded length is at most decode_len of
\* the input length, and equal to it when the encoding ignores no character
\* (a wrap separator is an ignored character).
C15_DecodeLenExact ==
    Accepted =>
        LET n == Encoding_decode_len(e, Len(text))
        IN  /\ n.kind = "ok"
            /\ dres.written <= n.written
            /\ (is_arithmetic(e) \/ ~has_ignore(e)) => dres.written = n.written

\* the text holds no padding character of the encoding
NoPadding(en, s) == \A k \in 1..Len(s) : s[k] # pad(en)

\* C15, amended: the decoded length is at most decode_len of the input
\* length, and equal to it in block mode when the encoding ignores no
\* character and the input holds no padding character.
C15_DecodeLenBound ==
    Accepted =>
        LET n == Encoding_decode_len(e, Len(text))
        IN  /\ n.kind = "ok"
            /\ dres.written <= n.written
            /\ (~is_arithmetic(e) /\ ~has_ignore(e) /\ NoPadding(e, text))
                    => dres.written = n.written

\* an unpadded text with a partial last block is accepted in block mode
C15_Witness ==
    /\ Accepted
    /\ ~is_arithmetic(e) /\ ~has_ignore(e) /\ NoPadding(e, text)
    /\ bit(e) = 6 /\ Len(text) = 3 /\ dres.written = 2

\* C16: partial-decode consistency.  Whenever decode_mut fails with
\* DecodePartial{read, written, error}, decoding input[..read] on its own
\* succeeds and yields exactly output[..written], and read <= error.position.
C16_PartialConsistent ==
    (pc = "decoded" /\ dres.op = "decode_mut" /\ dres.kind = "err") =>
        /\ dres.read <= Len(text)
        /\ dres.read <= dres.position
        /\ LET r == Encoding_decode(e, Slice(text, 0, Min(dres.read, Len(text))))
           IN  /\ r.kind = "ok"
               /\ r.written = dres.written
               /\ r.out = dres.out

\* the bytes of the text that are neither a symbol, nor the padding
\* character, nor an ignored character of the encoding
Foreign(en, s) ==
    {k \in 1..Len(s) : s[k] >= 128
                       \/ (s[k] # pad(en) /\ val(en, s[k]) \in {INVALID, PADDING})}

FirstForeign(en, s) == CHOOSE k \in Foreign(en, s) : \A j \in Foreign(en, s) : k <= j

\* C17: block-mode Symbol errors.  If the input of a block-mode encoding
\* holds a byte that is neither a symbol, nor the padding character, nor an
\* ignored character, and no padding character comes before the first such
\* byte, decode_mut fails with kind Symbol and the index of that byte as
\* position.
C17_BlockSymbol ==
    (/\ pc = "decoded" /\ dres.op = "decode_mut" /\ ~is_arithmetic(e)
     /\ Encoding_decode_len(e, Len(text)).kind = "ok"
     /\ dres.olen = Encoding_decode_len(e, Len(text)).written
     /\ Foreign(e, text) # {}
     /\ NoPadding(e, Slice(text, 0, FirstForeign(e, text) - 1))) =>
        /\ dres.kind = "err"
        /\ dres.err = "Symbol"
        /\ dres.position = FirstForeign(e, text) - 1

\* the positions of the bytes of the text that are not in the alphabet
Outside(en, s) ==
    {k \in 1..Len(s) : \A i \in 1..Len(get_symbols(en)) : get_symbols(en)[i] # s[k]}

\* the number bs * m + carry from digit i on, as base-256 digits, least
\* significant first, without leading zero digits
RECURSIVE MulAddBytes(_, _, _, _)
MulAddBytes(bs, i, m, carry) ==
    IF i > Len(bs)
    THEN IF carry = 0 THEN <<>> ELSE <<carry % 256>> \o MulAddBytes(bs, i, m, carry \div 256)
    ELSE <<((bs[i] * m) + carry) % 256>>
         \o MulAddBytes(bs, i + 1, m, ((bs[i] * m) + carry) \div 256)

\* the magnitude of the first n symbols of a text of alphabet symbols
Magnitude(en, s, n) ==
    LET step(j, bs) ==
            MulAddBytes(bs, 1, Len(get_symbols(en)),
                        (CHOOSE i \in 1..Len(get_symbols(en)) : get_symbols(en)[i] = s[j + 1])
                            - 1)
    IN  FoldRange(step, 0, n, <<>>)

\* the magnitude fits in the limbs of the big-integer buffer
Fits(en, s, n) == Len(Magnitude(en, s, n)) <= Capacity

\* C18: arithmetic-mode Symbol errors.  decode_mut on an input that holds
\* a byte outside the alphabet, the prefix before it within capacity, fails
\* with kind Symbol and the index of the first such byte as position.
C18_ArithSymbol ==
    (/\ pc = "decoded" /\ dres.op = "decode_mut" /\ is_arithmetic(e)
     /\ Outside(e, text) # {}
     /\ \A k \in Outside(e, text) : (\A j \in Outside(e, text) : k <= j) => Fits(e, text, k - 1)) =>
        /\ dres.kind = "err"
        /\ dres.err = "Symbol"
        /\ \A j \in Outside(e, text) : dres.position + 1 <= j
        /\ dres.position + 1 \in Outside(e, text)

C20_BufferAlloc ==
    /\ (pc = "encoded" /\ eres.op = "alloc_encode") =>
            \A olen \in 0..((8 * Len(input)) + 1) :
                LET b == encode_to_buffer(get_symbols(e), input, Fill(olen, Chars.stale))
                IN  b.kind = "ok" => (eres.kind = "ok" /\ eres.out = Reported(b))
    /\ (pc = "decoded" /\ dres.op = "alloc_decode") =>
            \A olen \in 0..(Len(text) + 1) :
                LET b == decode_to_buffer(get_symbols(e), text, olen)
                IN  b.kind = "ok" => (dres.kind = "ok" /\ dres.out = b.out)

\* the allocating decode of a text that fills the limbs of the buffer codec
C20_Witness ==
    /\ pc = "decoded" /\ dres.op = "alloc_decode" /\ dres.kind = "ok"
    /\ Len(dres.out) = Capacity
    /\ text[1] = get_symbols(e)[1]
    /\ decode_to_buffer(get_symbols(e), text, Len(text)).kind = "ok"
    /\ decode_to_buffer(get_symbols(e), text, Len(text)).out = dres.out

\* the text t cut into lines of w symbols, the last one possibly shorter,
\* each line followed by the separator
RECURSIVE Lines(_, _, _)
Lines(t, w, sep) ==
    IF Len(t) = 0 THEN <<>>
    ELSE Slice(t, 0, Min(w, Len(t))) \o sep \o Lines(Slice(t, Min(w, Len(t)), Len(t)), w, sep)

\* C21: wrap structure.  For a block-mode encoding with wrap the text encode
\* returns is the text the same encoding without wrap returns, cut into
\* lines of exactly the wrap width (the last one possibly shorter, never
\* empty), each followed by the separator; its length is the unwrapped
\* length plus one separator per line.
C21_WrapStructure ==
    (BlockMode /\ pc = "encoded" /\ eres.op = "encode" /\ wrap(e).some) =>
        LET u == Encoding_encode(encoding([spec EXCEPT !.wrap_width = 0,
                                                       !.wrap_separator = <<>>]),
                                 env, input)
        IN  /\ u.kind = "ok"
            /\ eres.kind = "ok"
            /\ eres.out = Lines(u.out, wrap(e).col, wrap(e).end)
            /\ Len(eres.out) = Len(u.out)
                               + (Len(wrap(e).end) * div_ceil(Len(u.out), wrap(e).col))

\* the positions past the first block of the bytes the encoding does not
\* ignore
Later(en, s) ==
    {k \in (ENC(bit(en)) + 1)..Len(s) : s[k] >= 128 \/ val(en, s[k]) # IGNORE}

\* C22: PadFinal.  For a padded block-mode encoding in PadFinal mode, when
\* the input starts with a block of symbols and padding that decodes, it is
\* accepted when only ignored characters follow, and otherwise decode_mut
\* fails with kind Padding at the index of the first later byte that is not
\* an ignored character.
C22_PadFinal ==
    (/\ pc = "decoded" /\ dres.op = "decode_mut" /\ ~is_arithmetic(e)
     /\ pad(e) # None /\ pad_mode(e) = "PadFinal"
     /\ Encoding_decode_len(e, Len(text)).kind = "ok"
     /\ dres.olen = Encoding_decode_len(e, Len(text)).written
     /\ \E p \in 0..(ENC(bit(e)) - 1) :
            /\ (p * bit(e)) % 8 < bit(e)
            /\ Len(text) >= ENC(bit(e))
            /\ Slice(text, 0, ENC(bit(e))) = PaddedBlock(e, p)) =>
        IF Later(e, text) = {} THEN dres.kind = "ok"
        ELSE /\ dres.kind = "err"
             /\ dres.err = "Padding"
             /\ dres.position + 1 \in Later(e, text)
             /\ \A k \in Later(e, text) : dres.position + 1 <= k

\* a byte sequence, least significant byte first, without its high zero bytes
RECURSIVE Norm(_)
Norm(bs) ==
    IF Len(bs) > 0 /\ bs[Len(bs)] = 0 THEN Norm(SubSeq(bs, 1, Len(bs) - 1)) ELSE bs

\* the value a view holds, as bytes, least significant first: the limbs from
\* `start` on
ViewValue(v) ==
    Norm(AsSeq([k \in 1..(ChunkBytes * (Len(v.chunks) - v.start)) |->
                  (v.chunks[Len(v.chunks) - ((k - 1) \div ChunkBytes)]
                       \div Pow(256, (k - 1) % ChunkBytes)) % 256]))

\* `start` is the index of the first non-zero limb, or the length
StartAtFirst(v) ==
    /\ v.start \in 0..Len(v.chunks)
    /\ v.start < Len(v.chunks) => v.chunks[v.start + 1] # 0

\* some step of the division loop shifts set bits out of the accumulator
RECURSIVE DivShifts(_, _, _, _)
DivShifts(chunks, i, carry, divider) ==
    IF i >= Len(chunks) THEN FALSE
    ELSE \/ div_step(carry, chunks[i + 1], divider).shifted
         \/ DivShifts(chunks, i + 1, div_step(carry, chunks[i + 1], divider).carry, divider)

\* C23: div_mod(d) with d >= 1 on a view holding v leaves the view holding
\* the quotient q and returns r with r < d and q * d + r = v; the
\* accumulator never loses bits; afterwards `start` is the index of the first
\* non-zero limb of the quotient, or the length when the quotient is zero.
C23_DivModExact ==
    call.op = "div_mod" =>
        /\ call.rem < call.arg
        /\ Norm(MulAddBytes(ViewValue(big), 1, call.arg, call.rem)) = ViewValue(call.before)
        /\ ~DivShifts(call.before.chunks, call.before.start, 0, call.arg)
        /\ StartAtFirst(big)
        /\ is_zero(big) <=> ViewValue(big) = <<>>

\* a full buffer divided by the largest divisor of the exploration, and a
\* division that leaves a remainder and moves `start`
C23_Witness ==
    /\ call.op = "div_mod" /\ call.before.start = 0 /\ call.arg > 1
    /\ big.start > 0 /\ ~is_zero(big) /\ call.rem > 0

\* some step of the multiplication loop carries out of the accumulator
RECURSIVE MulWraps(_, _, _, _, _)
MulWraps(chunks, start, i, carry, multiplicator) ==
    IF i < start THEN FALSE
    ELSE \/ mul_step(carry, chunks[i + 1], multiplicator).wrapped
         \/ MulWraps(chunks, start, i - 1,
                     mul_step(carry, chunks[i + 1], multiplicator).carry, multiplicator)

\* C24: mul_add(m, a) on a view of c limbs holding v returns Ok exactly
\* when v*m + a fits in c limbs, and then leaves the view holding v*m + a
\* with `start` one lower exactly when v*m + a needs one limb more than were
\* in use, and unchanged otherwise; no step carries out of the accumulator,
\* for every limb value of m and a.
C24_MulAddExact ==
    call.op = "mul_add" =>
        LET product == Norm(MulAddBytes(ViewValue(call.before), 1, call.arg, call.add))
            used == Len(big.chunks) - call.before.start
        IN  /\ call.ok <=> Len(product) <= ChunkBytes * Len(big.chunks)
            /\ call.ok => /\ ViewValue(big) = product
                          /\ big.start = IF Len(product) > ChunkBytes * used
                                          THEN call.before.start - 1
                                          ELSE call.before.start
            /\ ~MulWraps(call.before.chunks, call.before.start, Len(big.chunks) - 1,
                         call.add, call.arg)

\* the largest multiplier and addend on a view whose last limb is the largest
\* limb, the carry taking one more limb
C24_Witness ==
    /\ call.op = "mul_add" /\ call.ok
    /\ call.arg = ChunkMod - 1 /\ call.add = ChunkMod - 1
    /\ call.before.start \in 1..(Len(big.chunks) - 1)
    /\ call.before.chunks[Len(big.chunks)] = ChunkMod - 1
    /\ big.start = call.before.start - 1

\* C25: after new and any sequence of load_be_bytes, div_mod with a divisor
\* of at least one and successful mul_add with a multiplier of at least one,
\* every limb before `start` is zero and `start` is the index of the first
\* non-zero limb, or the length; div_mod does not decrease `start`, mul_add
\* does not increase it and lowers it by at most one.
C25_Representation ==
    call.clean =>
        /\ \A i \in 1..big.start : big.chunks[i] = 0
        /\ StartAtFirst(big)
        /\ call.op = "div_mod" => big.start >= call.before.start
        /\ call.op = "mul_add" => big.start \in {call.before.start - 1, call.before.start}

\* C26: in arithmetic mode, for an input that fits the big-integer buffer,
\* Encoding::encode returns (it neither fails with BufferTooSmall nor
\* panics) and the text it returns is at most encode_len(n) = n + n/2 + 2
\* symbols long.
C26_EncodeLenSufficient ==
    (/\ pc = "encoded" /\ eres.op = "encode" /\ is_arithmetic(e)
     /\ Len(input) <= Capacity) =>
        /\ eres.kind = "ok"
        /\ Len(eres.out) <= Len(input) + (Len(input) \div 2) + 2

\* C27: wrap-width validation.  For a block-mode specification that is
\* accepted without its wrap, with a separator and a width of 1 to 255, the
\* compiler accepts the wrap exactly when the width is a multiple of the
\* number of symbols per block (4 for 64 symbols, 8 for 32 or 8 symbols, 2
\* for 16 symbols) and the separator has at most 15 bytes; a width that is
\* not such a multiple, with such a separator, yields WrapWidth.
C27_WrapWidth ==
    LET u == encoding([spec EXCEPT !.wrap_width = 0, !.wrap_separator = <<>>])
    IN  (/\ pc \in {"ready", "rejected"}
         /\ ~spec.use_arithmetic /\ Len(spec.symbols) \in BlockSizes
         /\ spec.wrap_width \in 1..255 /\ Len(spec.wrap_separator) > 0
         /\ u.ok) =>
            /\ e.ok <=> /\ spec.wrap_width % ENC(u.bit) = 0
                        /\ Len(spec.wrap_separator) <= 15
            /\ (spec.wrap_width % ENC(u.bit) # 0 /\ Len(spec.wrap_separator) <= 15)
                   => (~e.ok /\ e.err = "WrapWidth")

\* C28: streaming Encoder equivalence.  For a block-mode encoding without
\* wrap, whatever the fragments, append does not panic; after finalize the
\* output is encode of the concatenation of the fragments; before finalize
\* the output is encode of a run of whole blocks of that concatenation, so
\* it holds no padding and no partial block.
C28_StreamEquivalence ==
    (pc = "ready" /\ ~is_arithmetic(e) /\ ~wrap(e).some) =>
        /\ encoder.status # "panic"
        /\ encoder.status = "final" =>
               /\ Encoding_encode(e, env, encoder.fed).kind = "ok"
               /\ encoder.output = Encoding_encode(e, env, encoder.fed).out
        /\ encoder.status = "open" =>
               \E m \in 0..Len(encoder.fed) :
                   /\ m % DEC(bit(e)) = 0
                   /\ encoder.output = Encoding_encode(e, env, Slice(encoder.fed, 0, m)).out

\* C29: Encoder buffer safety.  For every encoding, the block input length
\* the Encoder uses is between 1 and 8, the pending byte count stays
\* strictly below it, and no append panics (no index past the 8-byte
\* buffer, no remainder by zero).
C29_EncoderBuffer ==
    (pc = "ready") =>
        /\ ~block_len(e).panic
        /\ block_len(e).ilen \in 1..8
        /\ encoder.length < block_len(e).ilen
        /\ encoder.status # "panic"

\* the byte sequence a, least significant byte first and without high zero
\* bytes, is a smaller number than b
Less(a, b) ==
    \/ Len(a) < Len(b)
    \/ /\ Len(a) = Len(b)
       /\ \E k \in 1..Len(a) : a[k] < b[k] /\ \A j \in (k + 1)..Len(a) : a[j] = b[j]

InLoop == call.op \in {"fast", "last", "chunk"}

\* C30: the digit loop of the arithmetic encoder terminates.  The chunk
\* divisor is at least 2 and fits in a limb; a div_mod of a non-zero value
\* leaves a smaller value; the inner loop of the last chunk runs only when
\* the value is zero and leaves the loop as soon as the chunk is zero; and
\* a loop that was entered reaches its exit.
C30_Terminates ==
    /\ [](InLoop => (call.arg >= 2 /\ call.arg < ChunkMod))
    /\ [](call.op = "last" => is_zero(big))
    /\ [][(call.op = "fast" /\ ~is_zero(big))
              => Less(ViewValue(big'), ViewValue(big))]_vars
    /\ [][(call.op = "last" /\ call.rem \div Len(get_symbols(e)) = 0)
              => call'.op = "done"]_vars
    /\ InLoop ~> (call.op = "done")

\* the loop left after the largest value the buffer holds went through it,
\* with the 58-symbol alphabet
C30_Witness ==
    /\ pc = "ready" /\ call.op = "done"
    /\ Len(get_symbols(e)) = 58
    /\ input = Bytes(4, Capacity)
    /\ Len(text) > 2 * (ChunkBits \div bit_length(58))

====
